---- MODULE Spec2Model ----
(***************************************************************************)
(* A model of the DynamoDB item pipeline of goamz (package dynamodb, the   *)
(* second half of src/rds/rds.go): the Item and BatchWriteItemRequest      *)
(* builders, the client-side validation of Table.BatchWriteItem, the       *)
(* transport call, and the decoding of the loosely typed JSON responses.   *)
(***************************************************************************)
EXTENDS Integers, Sequences, FiniteSets, TLC

VARIABLES
    heap,      \* the Items the caller holds: ItemId (a *Item) -> Item
    request,   \* the caller's BatchWriteItemRequest
    batchGetItem, \* the caller's BatchGetItem
    threads,   \* the calls of the builders in progress, one per thread
    op,        \* the operation invoked last ("none" before the first)
    calls,     \* the queryServer calls made by that invocation, in order
    reply,     \* what queryServer returned to it (NoReply when not called)
    ret,       \* its first return value
    err        \* its second return value (the error)

vars == <<heap, request, batchGetItem, threads, op, calls, reply, ret, err>>

----------------------------------------------------------------------------
(* Bounds of the model. *)

\* The caller adds at most MaxItems items to one request.
MaxItems == 26
\* At most MaxOdd entries of a request differ from the bulk of it (see Odd).
MaxOdd == 1
\* The caller adds at most MaxAttributes attributes to one Item.
MaxAttributes == 4
\* A request holds at most MaxHeld items while the caller still changes them.
MaxHeld == 2

Tables == {"T1", "T2"}
MainTable == "T1"

----------------------------------------------------------------------------
(* Strings.  A Go string is a TLA+ string; the long strings of the size    *)
(* limits are written by name, and len gives the byte length of both.      *)

BlobLen == [ b65535 |-> 65535, b65536 |-> 65536, b65537 |-> 65537 ]

len(s) == IF s \in DOMAIN BlobLen THEN BlobLen[s] ELSE Len(s)

----------------------------------------------------------------------------
(* Generic helpers: Go maps are functions on the set of keys present, and  *)
(* a range over a map visits the keys in an order the runtime chooses.     *)

EmptyMap == [x \in {} |-> x]

MapPut(m, key, val) ==
    [x \in (DOMAIN m) \cup {key} |-> IF x = key THEN val ELSE m[x]]

Perms(S) ==
    {s \in [1..Cardinality(S) -> S] : \A i, j \in DOMAIN s : s[i] = s[j] => i = j}

----------------------------------------------------------------------------
(* Attributes.  The type tags are those of the wire format.                *)

TYPE_STRING == "S"
TYPE_NUMBER == "N"
TYPE_BINARY == "B"
TYPE_STRING_SET == "SS"
TYPE_NUMBER_SET == "NS"
TYPE_BINARY_SET == "BS"

ScalarTypes == {TYPE_STRING, TYPE_NUMBER, TYPE_BINARY}
SetTypes == {TYPE_STRING_SET, TYPE_NUMBER_SET, TYPE_BINARY_SET}

\* Attribute{Type, Name, Value, SetValues}; a nil SetValues is <<>>.
Attribute(type, name, value, setValues) ==
    [Type |-> type, Name |-> name, Value |-> value, SetValues |-> setValues]

NewStringAttribute(name, value) == Attribute(TYPE_STRING, name, value, <<>>)
NewNumericAttribute(name, value) == Attribute(TYPE_NUMBER, name, value, <<>>)

----------------------------------------------------------------------------
(* Items. *)

NewItem == [attributes |-> <<>>]

\* AddAttribute that keeps one attribute per name: the new one takes the
\* place of the one the item already has under its name.
AddAttributeByName(i, attribute) ==
    IF \E k \in DOMAIN i.attributes : i.attributes[k].Name = attribute.Name
    THEN [i EXCEPT !.attributes =
            [k \in DOMAIN @ |->
                IF @[k].Name = attribute.Name THEN attribute ELSE @[k]]]
    ELSE [i EXCEPT !.attributes = Append(@, attribute)]

AddAttribute(i, attribute) ==
    [i EXCEPT !.attributes = Append(@, attribute)]

GetAttributes(i) == i.attributes

\* AddAttributesFromMap ranges over a map: every order of its values can
\* be the order in which they are appended.
RECURSIVE AddAll(_, _, _, _)
AddAll(i, attributes, order, k) ==
    IF k > Len(order) THEN i
    ELSE AddAll(AddAttribute(i, attributes[order[k]]), attributes, order, k + 1)

AddAttributesFromMap(i, attributes) ==
    {AddAll(i, attributes, order, 1) : order \in Perms(DOMAIN attributes)}

\* SumValueLen that passes over the attributes of a set type.
RECURSIVE SumValueLenScalars(_, _)
SumValueLenScalars(attributes, k) ==
    IF k = 0 THEN 0
    ELSE SumValueLenScalars(attributes, k - 1)
           + (IF attributes[k].Type \in SetTypes THEN 0
              ELSE len(attributes[k].Value))

RECURSIVE SumValueLen(_, _)
SumValueLen(attributes, k) ==
    IF k = 0 THEN 0
    ELSE SumValueLen(attributes, k - 1) + len(attributes[k].Value)

GetSize(i) == SumValueLen(i.attributes, Len(i.attributes))

\* The Items the caller holds when it builds a batch: the item of the
\* repository's tests, an item of exactly the size limit and one a byte over.
BatchItems ==
    [id \in {"small", "limit", "over"} |->
        CASE id = "small" ->
               AddAttribute(AddAttribute(NewItem, NewNumericAttribute("id", "1")),
                            NewStringAttribute("description", "lorem1"))
          [] id = "limit" ->
               AddAttribute(NewItem, NewStringAttribute("id", "b65536"))
          [] id = "over" ->
               AddAttribute(NewItem, NewStringAttribute("id", "b65537"))]

----------------------------------------------------------------------------
(* BatchWriteItemRequest. *)

NewBatchWriteItemOperations == [deleteRequest |-> <<>>, putRequest |-> <<>>]

NewBatchWriteItemRequest ==
    [operations |-> EmptyMap,
     returnConsumedCapacity |-> FALSE,
     returnItemCollecionMetrics |-> FALSE]

\* b.operations after the "if _, ok := b.operations[table]; !ok" of both
\* Add methods.
EnsureTable(operations, table) ==
    IF table \in DOMAIN operations THEN operations
    ELSE MapPut(operations, table, NewBatchWriteItemOperations)

AddDeleteRequestTo(b, table, item) ==
    [b EXCEPT !.operations =
        [EnsureTable(@, table) EXCEPT ![table].deleteRequest = Append(@, item)]]

\* AddPutRequestTo that holds an Item once per put list.
AddPutRequestToOnce(b, table, item) ==
    [b EXCEPT !.operations =
        [EnsureTable(@, table) EXCEPT ![table].putRequest =
            IF \E k \in DOMAIN @ : @[k] = item THEN @ ELSE Append(@, item)]]

AddPutRequestTo(b, table, item) ==
    [b EXCEPT !.operations =
        [EnsureTable(@, table) EXCEPT ![table].putRequest = Append(@, item)]]

GetOperations(b) == b.operations
GetDeleteRequest(o) == o.deleteRequest
GetPutRequest(o) == o.putRequest

\* GetItems ranges over the operations map in the order `order` (a
\* permutation of its keys), deletions before puts within a table.
RECURSIVE GetItemsFrom(_, _, _)
GetItemsFrom(b, order, k) ==
    IF k = 0 THEN <<>>
    ELSE GetItemsFrom(b, order, k - 1)
           \o GetDeleteRequest(GetOperations(b)[order[k]])
           \o GetPutRequest(GetOperations(b)[order[k]])

GetItems(b, order) == GetItemsFrom(b, order, Len(order))

Orders(b) == Perms(DOMAIN GetOperations(b))

\* The number of items of a request, whatever the order.
RECURSIVE CountOver(_, _)
CountOver(b, tables) ==
    IF tables = {} THEN 0
    ELSE LET t == CHOOSE x \in tables : TRUE IN
         Len(b.operations[t].deleteRequest) + Len(b.operations[t].putRequest)
           + CountOver(b, tables \ {t})

TotalItems(b) == CountOver(b, DOMAIN b.operations)

\* The entries of a request other than the copies, in the put list of
\* MainTable, of that list's first entry.
Bulk(b) ==
    IF MainTable \in DOMAIN b.operations
    THEN LET p == b.operations[MainTable].putRequest IN
         Cardinality({k \in DOMAIN p : p[k] = p[1]})
    ELSE 0

Odd(b) == TotalItems(b) - Bulk(b)

----------------------------------------------------------------------------
(* BatchGetItem{Server, Keys}: Keys maps a table reference to the keys     *)
(* requested on that table.                                                *)

\* The caller holds no BatchGetItem yet.
NoBatchGetItem == [Server |-> "nil", Keys |-> EmptyMap]

\* &BatchGetItem{t.Server, make(map[*Table][]Key)} with Keys[t] = keys
NewBatchGetItem(t, keys) == [Server |-> "server", Keys |-> (t :> keys)]

\* AddTableTo that adds the keys to those the table already has.
AddTableMerge(b, t, keys) ==
    [b EXCEPT !.Keys =
        MapPut(@, t, IF t \in DOMAIN @ THEN @[t] \o keys ELSE keys)]

\* batchGetItem.Keys[t] = *keys
AddTableTo(b, t, keys) == [b EXCEPT !.Keys = MapPut(@, t, keys)]

----------------------------------------------------------------------------
(* Threads.  A builder call is not atomic: AddPutRequest and               *)
(* AddDeleteRequest look the table up, make its entry when there is none,  *)
(* read the list, and write the list with the item appended; AddAttribute  *)
(* reads and writes the attribute list.  A thread is at one of these       *)
(* steps of the call it makes.                                             *)

Threads == {"t1", "t2"}

BuilderCall(method, table, item) == [method |-> method, table |-> table, item |-> item]
NoCall == BuilderCall("none", "", "")

Idle == [pc |-> "idle", call |-> NoCall, local |-> <<>>]
NoThreads == [th \in Threads |-> Idle]

----------------------------------------------------------------------------
(* JSON documents as simplejson holds them: a tagged value whose payload   *)
(* is a string, a sequence of values, or a map from keys to values.        *)

JString(s) == [k |-> "string", v |-> s]
JArray(a) == [k |-> "array", v |-> a]
JObject(m) == [k |-> "object", v |-> m]
JNull == [k |-> "null", v |-> "null"]

IsString(j) == j.k = "string"
IsArray(j) == j.k = "array"
IsObject(j) == j.k = "object"

\* A response body: the bytes of a JSON document, or bytes that are none.
Garbage == [k |-> "garbage", v |-> "garbage"]

\* Errors: a kind (the message) and the raw fragment the message prints.
NoFragment == [k |-> "none", v |-> "none"]
Error(kind, raw) == [kind |-> kind, raw |-> raw]
NoErr == Error("nil", NoFragment)

TooManyItems == Error("Each request cannot contain more than 25 items", NoFragment)
EmptyRequest == Error("The request must contain at least 1 item", NoFragment)
ItemTooLarge == Error("The size of the item cannot exceed 64KB", NoFragment)
RequestTooLarge == Error("The size of the request cannot exceed 1MB", NoFragment)
ValidationError == Error("At least one attribute is required.", NoFragment)
ErrNotFound == Error("Item not found", NoFragment)
TransportError == Error("transport", NoFragment)
JsonSyntaxError == Error("json syntax", NoFragment)
MalformedResponse(fragment) == Error("Unexpected response", fragment)

\* Return values: nil, a map, a boolean or an int.
Nil == [k |-> "nil", v |-> "nil"]
MapVal(m) == [k |-> "map", v |-> m]
BoolVal(b) == [k |-> "bool", v |-> b]
IntVal(n) == [k |-> "int", v |-> n]

\* The outcome of a step that can fail.
Ok(val) == [err |-> NoErr, val |-> val]
Fail(e) == [err |-> e, val |-> Nil]

\* simplejson.NewJson: json.Unmarshal of the body.
NewJson(body) == IF body = Garbage THEN Fail(JsonSyntaxError) ELSE Ok(body)

\* Json.Get(key): the value under key when the document is a map that has
\* it, and the nil document otherwise.
JsonGet(json, key) ==
    IF IsObject(json) /\ key \in DOMAIN json.v THEN json.v[key] ELSE JNull

\* Json.CheckGet(key): the same, with whether the key was there.
JsonCheckGet(json, key) ==
    [json |-> JsonGet(json, key),
     ok |-> IsObject(json) /\ key \in DOMAIN json.v]

\* Json.Map(): the map of the document, or an error when it is none.
JsonMap(json) ==
    IF IsObject(json) THEN Ok(json.v)
    ELSE Fail(Error("type assertion to map[string]interface{} failed", NoFragment))

----------------------------------------------------------------------------
(* parseAttributes. *)

\* v[tag].(string)
StringAt(v, tag) == tag \in DOMAIN v /\ IsString(v[tag])
\* v[tag].([]interface{})
ArrayAt(v, tag) == tag \in DOMAIN v /\ IsArray(v[tag])

\* SetElements that leaves out the elements that are no strings.
SetElementsStringsOnly(vals) ==
    LET strings == SelectSeq(vals, IsString) IN
    [i \in 1..Len(strings) |-> strings[i].v]

\* arry := make([]string, len(vals)), filled where the element is a string
SetElements(vals) ==
    [i \in 1..Len(vals) |-> IF IsString(vals[i]) THEN vals[i].v ELSE ""]

\* Whether the field of one key yields an attribute.
Decodes(value) ==
    /\ IsObject(value)
    /\ \E tag \in ScalarTypes \cup SetTypes :
          IF tag \in ScalarTypes THEN StringAt(value.v, tag) ELSE ArrayAt(value.v, tag)

\* DecodeAttribute with the number set given the type of the string set.
DecodeAttributeSetType(key, value) ==
    LET v == value.v IN
    IF StringAt(v, TYPE_STRING) THEN Attribute(TYPE_STRING, key, v[TYPE_STRING].v, <<>>)
    ELSE IF StringAt(v, TYPE_NUMBER) THEN Attribute(TYPE_NUMBER, key, v[TYPE_NUMBER].v, <<>>)
    ELSE IF StringAt(v, TYPE_BINARY) THEN Attribute(TYPE_BINARY, key, v[TYPE_BINARY].v, <<>>)
    ELSE IF ArrayAt(v, TYPE_STRING_SET)
         THEN Attribute(TYPE_STRING_SET, key, "", SetElements(v[TYPE_STRING_SET].v))
    ELSE IF ArrayAt(v, TYPE_NUMBER_SET)
         THEN Attribute(TYPE_STRING_SET, key, "", SetElements(v[TYPE_NUMBER_SET].v))
    ELSE Attribute(TYPE_BINARY_SET, key, "", SetElements(v[TYPE_BINARY_SET].v))

\* DecodeAttribute that tries the sets before the scalars.
DecodeAttributeSetsFirst(key, value) ==
    LET v == value.v IN
    IF ArrayAt(v, TYPE_STRING_SET)
    THEN Attribute(TYPE_STRING_SET, key, "", SetElements(v[TYPE_STRING_SET].v))
    ELSE IF ArrayAt(v, TYPE_NUMBER_SET)
         THEN Attribute(TYPE_NUMBER_SET, key, "", SetElements(v[TYPE_NUMBER_SET].v))
    ELSE IF ArrayAt(v, TYPE_BINARY_SET)
         THEN Attribute(TYPE_BINARY_SET, key, "", SetElements(v[TYPE_BINARY_SET].v))
    ELSE IF StringAt(v, TYPE_STRING) THEN Attribute(TYPE_STRING, key, v[TYPE_STRING].v, <<>>)
    ELSE IF StringAt(v, TYPE_NUMBER) THEN Attribute(TYPE_NUMBER, key, v[TYPE_NUMBER].v, <<>>)
    ELSE Attribute(TYPE_BINARY, key, v[TYPE_BINARY].v, <<>>)

\* The attribute of one key: the if / else-if chain of parseAttributes.
DecodeAttribute(key, value) ==
    LET v == value.v IN
    IF StringAt(v, TYPE_STRING) THEN Attribute(TYPE_STRING, key, v[TYPE_STRING].v, <<>>)
    ELSE IF StringAt(v, TYPE_NUMBER) THEN Attribute(TYPE_NUMBER, key, v[TYPE_NUMBER].v, <<>>)
    ELSE IF StringAt(v, TYPE_BINARY) THEN Attribute(TYPE_BINARY, key, v[TYPE_BINARY].v, <<>>)
    ELSE IF ArrayAt(v, TYPE_STRING_SET)
         THEN Attribute(TYPE_STRING_SET, key, "", SetElements(v[TYPE_STRING_SET].v))
    ELSE IF ArrayAt(v, TYPE_NUMBER_SET)
         THEN Attribute(TYPE_NUMBER_SET, key, "", SetElements(v[TYPE_NUMBER_SET].v))
    ELSE Attribute(TYPE_BINARY_SET, key, "", SetElements(v[TYPE_BINARY_SET].v))

\* parseAttributes that gives up the item on one field it cannot decode.
parseAttributesAllOrNothing(s) ==
    IF \E x \in DOMAIN s : ~Decodes(s[x]) THEN EmptyMap
    ELSE [key \in DOMAIN s |-> DecodeAttribute(key, s[key])]

parseAttributes(s) ==
    [key \in {x \in DOMAIN s : Decodes(s[x])} |-> DecodeAttribute(key, s[key])]

----------------------------------------------------------------------------
(* The encoding of attributes for the wire: {name: {typeTag: value}}, a    *)
(* string for the scalar types and a sequence of strings for the sets.     *)

EncodeAttribute(a) ==
    JObject(a.Type :>
        (IF a.Type \in SetTypes
         THEN JArray([i \in 1..Len(a.SetValues) |-> JString(a.SetValues[i])])
         ELSE JString(a.Value)))

\* The wire object of a list of attributes; the last of a name stays.
attributeList(attributes) ==
    JObject([name \in {attributes[k].Name : k \in DOMAIN attributes} |->
        LET last == CHOOSE k \in DOMAIN attributes :
                       /\ attributes[k].Name = name
                       /\ \A j \in DOMAIN attributes :
                             attributes[j].Name = name => j <= k
        IN EncodeAttribute(attributes[last])])

----------------------------------------------------------------------------
(* Table.BatchWriteItem: the validation of the request. *)

MaxBatchItems == 25
MaxItemSize == 65536
MaxRequestSize == 1048576

\* SizeLoop with the per-item comparison off by one (>= for >).
RECURSIVE SizeLoopAtLimit(_, _, _, _)
SizeLoopAtLimit(h, items, k, totalSize) ==
    IF k > Len(items) THEN [err |-> NoErr, totalSize |-> totalSize]
    ELSE LET size == GetSize(h[items[k]]) IN
         IF size >= MaxItemSize
         THEN [err |-> ItemTooLarge, totalSize |-> totalSize + size]
         ELSE SizeLoopAtLimit(h, items, k + 1, totalSize + size)

\* The loop over request.GetItems(): the sizes are summed up to the first
\* item over the limit, where the loop returns.
RECURSIVE SizeLoop(_, _, _, _)
SizeLoop(h, items, k, totalSize) ==
    IF k > Len(items) THEN [err |-> NoErr, totalSize |-> totalSize]
    ELSE LET size == GetSize(h[items[k]]) IN
         IF size > MaxItemSize
         THEN [err |-> ItemTooLarge, totalSize |-> totalSize + size]
         ELSE SizeLoop(h, items, k + 1, totalSize + size)

\* ValidateBatch with the count comparison off by one (>= for >).
ValidateBatchCountAtLimit(h, b, o1, o2, o3) ==
    IF Len(GetItems(b, o1)) >= MaxBatchItems THEN TooManyItems
    ELSE IF Len(GetItems(b, o2)) = 0 THEN EmptyRequest
    ELSE LET sizes == SizeLoop(h, GetItems(b, o3), 1, 0) IN
         IF sizes.err # NoErr THEN sizes.err
         ELSE IF sizes.totalSize > MaxRequestSize THEN RequestTooLarge
         ELSE NoErr

\* ValidateBatch without the check of the empty request.
ValidateBatchNoEmptyCheck(h, b, o1, o2, o3) ==
    IF Len(GetItems(b, o1)) > MaxBatchItems THEN TooManyItems
    ELSE LET sizes == SizeLoop(h, GetItems(b, o3), 1, 0) IN
         IF sizes.err # NoErr THEN sizes.err
         ELSE IF sizes.totalSize > MaxRequestSize THEN RequestTooLarge
         ELSE NoErr

\* ValidateBatch with the aggregate comparison off by one (>= for >).
ValidateBatchTotalAtLimit(h, b, o1, o2, o3) ==
    IF Len(GetItems(b, o1)) > MaxBatchItems THEN TooManyItems
    ELSE IF Len(GetItems(b, o2)) = 0 THEN EmptyRequest
    ELSE LET sizes == SizeLoop(h, GetItems(b, o3), 1, 0) IN
         IF sizes.err # NoErr THEN sizes.err
         ELSE IF sizes.totalSize >= MaxRequestSize THEN RequestTooLarge
         ELSE NoErr

\* ValidateBatch with the aggregate size checked inside the loop, as soon
\* as the running total passes the limit.
RECURSIVE SizeLoopTotalFirst(_, _, _, _)
SizeLoopTotalFirst(h, items, k, totalSize) ==
    IF k > Len(items) THEN NoErr
    ELSE LET size == GetSize(h[items[k]]) IN
         IF totalSize + size > MaxRequestSize THEN RequestTooLarge
         ELSE IF size > MaxItemSize THEN ItemTooLarge
         ELSE SizeLoopTotalFirst(h, items, k + 1, totalSize + size)

ValidateBatchTotalFirst(h, b, o1, o2, o3) ==
    IF Len(GetItems(b, o1)) > MaxBatchItems THEN TooManyItems
    ELSE IF Len(GetItems(b, o2)) = 0 THEN EmptyRequest
    ELSE SizeLoopTotalFirst(h, GetItems(b, o3), 1, 0)

\* The four checks; o1, o2, o3 are the orders of the three GetItems calls.
ValidateBatch(h, b, o1, o2, o3) ==
    IF Len(GetItems(b, o1)) > MaxBatchItems THEN TooManyItems
    ELSE IF Len(GetItems(b, o2)) = 0 THEN EmptyRequest
    ELSE LET sizes == SizeLoop(h, GetItems(b, o3), 1, 0) IN
         IF sizes.err # NoErr THEN sizes.err
         ELSE IF sizes.totalSize > MaxRequestSize THEN RequestTooLarge
         ELSE NoErr

----------------------------------------------------------------------------
(* Table.BatchWriteItem: the decoding of the response.  Each loop over a   *)
(* map is modelled by the set of outcomes over the orders of its keys; an  *)
(* outcome is Ok(value) or Fail(error).                                    *)

\* AppendItem that assigns the item instead of appending it.
AppendItemAssign(tableResult, opType, item) ==
    MapPut(tableResult, opType, <<item>>)

\* AppendItem that puts the item before those already there.
AppendItemFront(tableResult, opType, item) ==
    MapPut(tableResult, opType,
           IF opType \in DOMAIN tableResult
           THEN <<item>> \o tableResult[opType] ELSE <<item>>)

\* tableResult[opType] = append(tableResult[opType], item)
AppendItem(tableResult, opType, item) ==
    MapPut(tableResult, opType,
           IF opType \in DOMAIN tableResult
           THEN Append(tableResult[opType], item) ELSE <<item>>)

\* ItemsLoop that takes the value of the operation kind for the attributes
\* of one item.
ItemsLoopWhole(itemsArray, todo, opType, tableResult) ==
    {Ok(AppendItem(tableResult, opType, item))
        : item \in AddAttributesFromMap(NewItem, parseAttributes(itemsArray))}

\* ItemsLoop that stops after the first entry of the operation kind.
ItemsLoopFirstOnly(itemsArray, todo, opType, tableResult) ==
    IF todo = {} THEN {Ok(tableResult)}
    ELSE UNION {
        LET attributesJson == itemsArray[key] IN
        IF ~IsObject(attributesJson) THEN {Fail(MalformedResponse(attributesJson))}
        ELSE {Ok(AppendItem(tableResult, opType, item))
                : item \in AddAttributesFromMap(NewItem, parseAttributes(attributesJson.v))}
        : key \in todo }

\* ItemsLoop that passes over an entry that is no mapping.
RECURSIVE ItemsLoopLenient(_, _, _, _)
ItemsLoopLenient(itemsArray, todo, opType, tableResult) ==
    IF todo = {} THEN {Ok(tableResult)}
    ELSE UNION {
        LET attributesJson == itemsArray[key] IN
        IF ~IsObject(attributesJson)
        THEN ItemsLoopLenient(itemsArray, todo \ {key}, opType, tableResult)
        ELSE UNION {
            ItemsLoopLenient(itemsArray, todo \ {key}, opType,
                             AppendItem(tableResult, opType, item))
            : item \in AddAttributesFromMap(NewItem, parseAttributes(attributesJson.v)) }
        : key \in todo }

\* for _, attributesJson := range itemsArray
RECURSIVE ItemsLoop(_, _, _, _)
ItemsLoop(itemsArray, todo, opType, tableResult) ==
    IF todo = {} THEN {Ok(tableResult)}
    ELSE UNION {
        LET attributesJson == itemsArray[key] IN
        IF ~IsObject(attributesJson) THEN {Fail(MalformedResponse(attributesJson))}
        ELSE UNION {
            ItemsLoop(itemsArray, todo \ {key}, opType,
                      AppendItem(tableResult, opType, item))
            : item \in AddAttributesFromMap(NewItem, parseAttributes(attributesJson.v)) }
        : key \in todo }

\* for opType, itemsJson := range operations
RECURSIVE OperationsLoop(_, _, _)
OperationsLoop(operations, todo, tableResult) ==
    IF todo = {} THEN {Ok(tableResult)}
    ELSE UNION {
        LET itemsJson == operations[opType] IN
        IF ~IsObject(itemsJson) THEN {Fail(MalformedResponse(itemsJson))}
        ELSE UNION {
            IF o.err # NoErr THEN {o}
            ELSE OperationsLoop(operations, todo \ {opType}, o.val)
            : o \in ItemsLoop(itemsJson.v, DOMAIN itemsJson.v, opType, tableResult) }
        : opType \in todo }

\* for _, container := range containerArray
RECURSIVE ContainersLoop(_, _, _)
ContainersLoop(containerArray, k, tableResult) ==
    IF k > Len(containerArray) THEN {Ok(tableResult)}
    ELSE LET container == containerArray[k] IN
         IF ~IsObject(container) THEN {Fail(MalformedResponse(container))}
         ELSE UNION {
             IF o.err # NoErr THEN {o}
             ELSE ContainersLoop(containerArray, k + 1, o.val)
             : o \in OperationsLoop(container.v, DOMAIN container.v, tableResult) }

\* The body of "for table, containerJson := range tables" for one table.
\* On a value that is no sequence the message prints containerArray, the
\* nil slice the failed type assertion left, not containerJson.
TableResult(containerJson) ==
    IF ~IsArray(containerJson) THEN {Fail(MalformedResponse(JArray(<<>>)))}
    ELSE ContainersLoop(containerJson.v, 1, EmptyMap)

\* TablesLoop that passes over a table whose value cannot be decoded and
\* returns the tables that can.
RECURSIVE TablesLoopSkip(_, _, _)
TablesLoopSkip(tables, todo, results) ==
    IF todo = {} THEN {Ok(results)}
    ELSE UNION {
        UNION {
            IF o.err # NoErr THEN TablesLoopSkip(tables, todo \ {table}, results)
            ELSE TablesLoopSkip(tables, todo \ {table}, MapPut(results, table, o.val))
            : o \in TableResult(tables[table]) }
        : table \in todo }

\* for table, containerJson := range tables
RECURSIVE TablesLoop(_, _, _)
TablesLoop(tables, todo, results) ==
    IF todo = {} THEN {Ok(results)}
    ELSE UNION {
        UNION {
            IF o.err # NoErr THEN {o}
            ELSE TablesLoop(tables, todo \ {table}, MapPut(results, table, o.val))
            : o \in TableResult(tables[table]) }
        : table \in todo }

\* ParseUnprocessedItems that takes a missing or mistyped field for an
\* empty mapping.
ParseUnprocessedItemsLenient(jsonResponse, json) ==
    LET tables == JsonMap(JsonGet(json, "UnprocessedItems")) IN
    IF tables.err # NoErr THEN {Ok(EmptyMap)}
    ELSE TablesLoop(tables.val, DOMAIN tables.val, EmptyMap)

\* Lines 508-556: from the parsed response to the return values.
ParseUnprocessedItems(jsonResponse, json) ==
    LET tables == JsonMap(JsonGet(json, "UnprocessedItems")) IN
    IF tables.err # NoErr THEN {Fail(MalformedResponse(jsonResponse))}
    ELSE TablesLoop(tables.val, DOMAIN tables.val, EmptyMap)

----------------------------------------------------------------------------
(* The transport: queryServer(target, query) returns an error or a body.   *)

NoReply == [err |-> NoErr, body |-> NoFragment]
TransportFailure == [err |-> TransportError, body |-> NoFragment]
Body(b) == [err |-> NoErr, body |-> b]

Query(target, payload) == [target |-> target, payload |-> payload]

\* An operation that returned before it reached queryServer.
Returned(name, r, e) ==
    /\ op' = name
    /\ calls' = <<>>
    /\ reply' = NoReply
    /\ ret' = r
    /\ err' = e

\* Dispatched with a second call of queryServer after a failed first one.
DispatchedRetry(name, q, rep, r, e) ==
    /\ op' = name
    /\ calls' = IF rep.err # NoErr THEN <<q, q>> ELSE <<q>>
    /\ reply' = rep
    /\ ret' = r
    /\ err' = e

\* An operation that called queryServer once, with query q, and got rep.
Dispatched(name, q, rep, r, e) ==
    /\ op' = name
    /\ calls' = <<q>>
    /\ reply' = rep
    /\ ret' = r
    /\ err' = e

----------------------------------------------------------------------------
(* The operations. *)

\* b.AddPutRequest(table, item), by the caller
AddPutRequest(table, item) ==
    /\ request' = AddPutRequestTo(request, table, item)
    /\ Returned("AddPutRequest", Nil, NoErr)
    /\ UNCHANGED <<heap, batchGetItem, threads>>

\* b.AddDeleteRequest(table, item), by the caller
AddDeleteRequest(table, item) ==
    /\ request' = AddDeleteRequestTo(request, table, item)
    /\ Returned("AddDeleteRequest", Nil, NoErr)
    /\ UNCHANGED <<heap, batchGetItem, threads>>

\* BatchWriteItem that validates the request only after the transport call.
BatchWriteItemSendFirst(replies) ==
    /\ \E o1, o2, o3 \in Orders(request), rep \in replies :
         LET invalid == ValidateBatch(heap, request, o1, o2, o3)
             q == Query("BatchWriteItem", request)
         IN
         IF rep.err # NoErr THEN Dispatched("BatchWriteItem", q, rep, Nil, rep.err)
         ELSE IF invalid # NoErr THEN Dispatched("BatchWriteItem", q, rep, Nil, invalid)
         ELSE LET json == NewJson(rep.body) IN
              IF json.err # NoErr
              THEN Dispatched("BatchWriteItem", q, rep, Nil, json.err)
              ELSE \E o \in ParseUnprocessedItems(rep.body, json.val) :
                   Dispatched("BatchWriteItem", q, rep,
                              IF o.err # NoErr THEN Nil ELSE MapVal(o.val),
                              o.err)
    /\ UNCHANGED <<heap, request, batchGetItem, threads>>

\* BatchWriteItem that takes the items out of the request it was given.
BatchWriteItemConsumes(replies) ==
    /\ \E o1, o2, o3 \in Orders(request) :
         LET invalid == ValidateBatch(heap, request, o1, o2, o3)
             q == Query("BatchWriteItem", request)
         IN
         IF invalid # NoErr THEN Returned("BatchWriteItem", Nil, invalid)
         ELSE \E rep \in replies :
              IF rep.err # NoErr
              THEN Dispatched("BatchWriteItem", q, rep, Nil, rep.err)
              ELSE LET json == NewJson(rep.body) IN
                   IF json.err # NoErr
                   THEN Dispatched("BatchWriteItem", q, rep, Nil, json.err)
                   ELSE \E o \in ParseUnprocessedItems(rep.body, json.val) :
                        Dispatched("BatchWriteItem", q, rep,
                                   IF o.err # NoErr THEN Nil ELSE MapVal(o.val),
                                   o.err)
    /\ request' = NewBatchWriteItemRequest
    /\ UNCHANGED <<heap, batchGetItem, threads>>

\* Table.BatchWriteItem(request), the transport answering with one of
\* `replies`.
BatchWriteItem(replies) ==
    /\ \E o1, o2, o3 \in Orders(request) :
         LET invalid == ValidateBatch(heap, request, o1, o2, o3)
             q == Query("BatchWriteItem", request)
         IN
         IF invalid # NoErr THEN Returned("BatchWriteItem", Nil, invalid)
         ELSE \E rep \in replies :
              IF rep.err # NoErr
              THEN Dispatched("BatchWriteItem", q, rep, Nil, rep.err)
              ELSE LET json == NewJson(rep.body) IN
                   IF json.err # NoErr
                   THEN Dispatched("BatchWriteItem", q, rep, Nil, json.err)
                   ELSE \E o \in ParseUnprocessedItems(rep.body, json.val) :
                        Dispatched("BatchWriteItem", q, rep,
                                   IF o.err # NoErr THEN Nil ELSE MapVal(o.val),
                                   o.err)
    /\ UNCHANGED <<heap, request, batchGetItem, threads>>

\* The keys of the single-item operations: a hash key and a range key.
Keys == {[HashKey |-> "1", RangeKey |-> ""], [HashKey |-> "2", RangeKey |-> "r"]}

\* GetItem that reports every response without a usable "Item" as a miss.
GetItemMissOnMistyped(key, replies) ==
    /\ LET q == Query("GetItem", key) IN
       \E rep \in replies :
         IF rep.err # NoErr THEN Dispatched("GetItem", q, rep, Nil, rep.err)
         ELSE LET json == NewJson(rep.body) IN
              IF json.err # NoErr THEN Dispatched("GetItem", q, rep, Nil, json.err)
              ELSE LET item == JsonMap(JsonGet(json.val, "Item")) IN
                   IF item.err # NoErr
                   THEN Dispatched("GetItem", q, rep, Nil, ErrNotFound)
                   ELSE Dispatched("GetItem", q, rep,
                                   MapVal(parseAttributes(item.val)), NoErr)
    /\ UNCHANGED <<heap, request, batchGetItem, threads>>

\* Table.GetItem(key)
GetItem(key, replies) ==
    /\ LET q == Query("GetItem", key) IN
       \E rep \in replies :
         IF rep.err # NoErr THEN Dispatched("GetItem", q, rep, Nil, rep.err)
         ELSE LET json == NewJson(rep.body) IN
              IF json.err # NoErr THEN Dispatched("GetItem", q, rep, Nil, json.err)
              ELSE LET itemJson == JsonCheckGet(json.val, "Item") IN
                   IF ~itemJson.ok
                   THEN Dispatched("GetItem", q, rep, Nil, ErrNotFound)
                   ELSE LET item == JsonMap(itemJson.json) IN
                        IF item.err # NoErr
                        THEN Dispatched("GetItem", q, rep, Nil,
                                        MalformedResponse(rep.body))
                        ELSE Dispatched("GetItem", q, rep,
                                        MapVal(parseAttributes(item.val)), NoErr)
    /\ UNCHANGED <<heap, request, batchGetItem, threads>>

\* The tail shared by PutItem, DeleteItem and modifyAttributes: the call,
\* and true once the response parses.
Acknowledged(name, q, replies) ==
    \E rep \in replies :
        IF rep.err # NoErr THEN Dispatched(name, q, rep, BoolVal(FALSE), rep.err)
        ELSE LET json == NewJson(rep.body) IN
             IF json.err # NoErr
             THEN Dispatched(name, q, rep, BoolVal(FALSE), json.err)
             ELSE Dispatched(name, q, rep, BoolVal(TRUE), NoErr)

\* PutItem without the check of the empty item.
PutItemNoCheck(item, replies) ==
    /\ Acknowledged("PutItem",
                    Query("PutItem", attributeList(GetAttributes(heap[item]))),
                    replies)
    /\ UNCHANGED <<heap, request, batchGetItem, threads>>

\* Table.PutItem(item)
PutItem(item, replies) ==
    /\ IF Len(GetAttributes(heap[item])) = 0
       THEN Returned("PutItem", BoolVal(FALSE), ValidationError)
       ELSE Acknowledged("PutItem",
                         Query("PutItem", attributeList(GetAttributes(heap[item]))),
                         replies)
    /\ UNCHANGED <<heap, request, batchGetItem, threads>>

\* Table.DeleteItem(key)
DeleteItem(key, replies) ==
    /\ Acknowledged("DeleteItem", Query("DeleteItem", key), replies)
    /\ UNCHANGED <<heap, request, batchGetItem, threads>>

\* Table.modifyAttributes(key, attributes, action), invoked as `name`
modifyAttributes(name, key, attributes, action, replies) ==
    /\ IF Len(attributes) = 0
       THEN Returned(name, BoolVal(FALSE), ValidationError)
       ELSE Acknowledged(name,
                Query("UpdateItem",
                      [key |-> key, attributes |-> attributeList(attributes),
                       action |-> action]),
                replies)
    /\ UNCHANGED <<heap, request, batchGetItem, threads>>

AddAttributes(key, attributes, replies) ==
    modifyAttributes("AddAttributes", key, attributes, "ADD", replies)

\* UpdateAttributes with the keyword of the caller's word for it.
UpdateAttributesSet(key, attributes, replies) ==
    modifyAttributes("UpdateAttributes", key, attributes, "SET", replies)

UpdateAttributes(key, attributes, replies) ==
    modifyAttributes("UpdateAttributes", key, attributes, "PUT", replies)

DeleteAttributes(key, attributes, replies) ==
    modifyAttributes("DeleteAttributes", key, attributes, "DELETE", replies)

----------------------------------------------------------------------------
(* BatchGetItem. *)

\* The keys of the single-item operations, in lists.
KeyLists ==
    {<<>>} \cup {<<k>> : k \in Keys} \cup {<<k1, k2>> : k1 \in Keys, k2 \in Keys}

\* Table.BatchGetItems(keys)
BatchGetItems(t, keys) ==
    /\ batchGetItem' = NewBatchGetItem(t, keys)
    /\ Returned("BatchGetItems", Nil, NoErr)
    /\ UNCHANGED <<heap, request, threads>>

\* BatchGetItem.AddTable(t, keys)
AddTable(t, keys) ==
    /\ batchGetItem # NoBatchGetItem
    /\ batchGetItem' = AddTableTo(batchGetItem, t, keys)
    /\ Returned("AddTable", Nil, NoErr)
    /\ UNCHANGED <<heap, request, threads>>

\* EntriesResult that decodes an entry that is no mapping to an item
\* without attributes.
EntriesResultZero(entries, jsonResponse) ==
    IF ~IsArray(entries) THEN Fail(MalformedResponse(jsonResponse))
    ELSE Ok([k \in DOMAIN entries.v |->
                IF IsObject(entries.v[k]) THEN parseAttributes(entries.v[k].v)
                ELSE EmptyMap])

\* The body of "for table, entries := range tables" for one table: every
\* error prints the whole response.
EntriesResult(entries, jsonResponse) ==
    IF ~IsArray(entries) THEN Fail(MalformedResponse(jsonResponse))
    ELSE IF \E k \in DOMAIN entries.v : ~IsObject(entries.v[k])
    THEN Fail(MalformedResponse(jsonResponse))
    ELSE Ok([k \in DOMAIN entries.v |-> parseAttributes(entries.v[k].v)])

\* Lines 407-438: from the parsed response to the return values.  The
\* errors of all tables are the same, so the order of the range over the
\* tables does not show.
ParseResponses(jsonResponse, json) ==
    LET tables == JsonMap(JsonGet(json, "Responses")) IN
    IF tables.err # NoErr THEN Fail(MalformedResponse(jsonResponse))
    ELSE IF \E table \in DOMAIN tables.val :
               EntriesResult(tables.val[table], jsonResponse).err # NoErr
    THEN Fail(MalformedResponse(jsonResponse))
    ELSE Ok([table \in DOMAIN tables.val |->
                EntriesResult(tables.val[table], jsonResponse).val])

\* BatchGetItem.Execute()
Execute(replies) ==
    /\ batchGetItem # NoBatchGetItem
    /\ LET q == Query("BatchGetItem", batchGetItem.Keys) IN
       \E rep \in replies :
         IF rep.err # NoErr THEN Dispatched("Execute", q, rep, Nil, rep.err)
         ELSE LET json == NewJson(rep.body) IN
              IF json.err # NoErr THEN Dispatched("Execute", q, rep, Nil, json.err)
              ELSE LET o == ParseResponses(rep.body, json.val) IN
                   Dispatched("Execute", q, rep,
                              IF o.err # NoErr THEN Nil ELSE MapVal(o.val),
                              o.err)
    /\ UNCHANGED <<heap, request, batchGetItem, threads>>

----------------------------------------------------------------------------
(* The specification of the batch-write builder and its validation.        *)

NoUnprocessedItems == JObject("UnprocessedItems" :> JObject(EmptyMap))

BasicReplies == {TransportFailure, Body(Garbage), Body(NoUnprocessedItems)}

Init ==
    /\ heap = BatchItems
    /\ request = NewBatchWriteItemRequest
    /\ batchGetItem = NoBatchGetItem
    /\ threads = NoThreads
    /\ op = "none"
    /\ calls = <<>>
    /\ reply = NoReply
    /\ ret = Nil
    /\ err = NoErr

\* The requests this specification builds: up to MaxItems items, of which
\* up to MaxOdd are not copies of the first put of MainTable.
Explored(b) == TotalItems(b) <= MaxItems /\ Odd(b) <= MaxOdd

Next ==
    \/ \E table \in Tables, item \in DOMAIN heap :
          Explored(AddPutRequestTo(request, table, item)) /\ AddPutRequest(table, item)
    \/ \E table \in Tables, item \in DOMAIN heap :
          Explored(AddDeleteRequestTo(request, table, item))
             /\ AddDeleteRequest(table, item)
    \/ BatchWriteItem(BasicReplies)

Spec == Init /\ [][Next]_vars

----------------------------------------------------------------------------
(* The responses the transport is given to answer with.                    *)

Str(x) == JString(x)
Obj1(k1, v1) == JObject(k1 :> v1)
Obj2(k1, v1, k2, v2) == JObject(k1 :> v1 @@ k2 :> v2)
EmptyObject == JObject(EmptyMap)

\* Wire attributes: one of each type, and the ways a field can be off.
GoodWires ==
    {Obj1("S", Str("a")), Obj1("N", Str("1")), Obj1("B", Str("YQ==")),
     Obj1("SS", JArray(<<Str("a"), Str("b")>>)),
     Obj1("NS", JArray(<<Str("2"), Str("1")>>)),
     Obj1("BS", JArray(<<Str("YQ==")>>))}

OddWires ==
    {Str("a"), JNull, EmptyObject,
     Obj1("X", Str("1")),
     Obj1("S", JArray(<<Str("a")>>)),
     Obj1("SS", Str("a")),
     Obj1("NS", JArray(<<Str("1"), JNull>>)),
     Obj2("S", Str("a"), "N", Str("1")),
     Obj2("S", JNull, "BS", JArray(<<Str("YQ==")>>))}

Wires == GoodWires \cup OddWires

\* The attribute maps of a single-item response.
ItemObjects ==
    {EmptyObject}
      \cup {Obj1("id", w) : w \in Wires}
      \cup {Obj2("id", w1, "name", w2) : w1 \in Wires, w2 \in Wires}

NotObjects == {Str("x"), JNull, JArray(<<>>)}

GetReplies ==
    {TransportFailure, Body(Garbage)}
      \cup {Body(Obj1("Item", io)) : io \in ItemObjects}
      \cup {Body(Obj1("Item", x)) : x \in NotObjects}
      \cup {Body(x) : x \in NotObjects}
      \cup {Body(EmptyObject), Body(Obj1("ConsumedCapacity", EmptyObject))}

AckReplies ==
    {TransportFailure, Body(Garbage), Body(EmptyObject), Body(Str("x")),
     Body(Obj1("Attributes", Obj1("id", Obj1("N", Str("1")))))}

\* The attribute maps of a batch response.
IdOne == Obj1("id", Obj1("N", Str("1")))
IdAndName == Obj2("id", Obj1("N", Str("2")), "name", Obj1("S", Str("a")))

BatchItemObjects ==
    {EmptyObject, IdOne, IdAndName,
     Obj1("id", Str("x")),
     Obj1("tags", Obj1("SS", JArray(<<Str("a"), Str("b")>>)))}

\* The value of an operation kind: {"Item": attributes}, the attributes
\* themselves, or something else.
OperationValues ==
    {Obj1("Item", io) : io \in BatchItemObjects}
      \cup {Obj1("Key", IdOne), IdOne, IdAndName,
            Obj1("tags", Obj1("SS", JArray(<<Str("a"), Str("b")>>))),
            Obj1("Item", Str("x")),
            Obj2("Item", IdOne, "Key", IdAndName)}
      \cup NotObjects

FewOperationValues == {Obj1("Item", IdOne), Obj1("Item", IdAndName), Str("x")}

Containers ==
    {Obj1("PutRequest", ov) : ov \in OperationValues}
      \cup {Obj1("DeleteRequest", ov) : ov \in OperationValues}
      \cup {Obj2("PutRequest", ov1, "DeleteRequest", ov2) :
                ov1 \in FewOperationValues, ov2 \in FewOperationValues}
      \cup {EmptyObject}
      \cup NotObjects

FewContainers ==
    {Obj1("PutRequest", Obj1("Item", IdOne)),
     Obj1("PutRequest", Obj1("Item", IdAndName)),
     Obj1("DeleteRequest", Obj1("Key", IdOne)),
     Obj1("PutRequest", Str("x")),
     Str("x")}

\* Containers that tell the order of three apart.
OrderContainers ==
    {Obj1("PutRequest", Obj1("Item", IdOne)),
     Obj1("PutRequest", Obj1("Item", IdAndName)),
     Obj1("DeleteRequest", Obj1("Key", IdOne))}

TableValues ==
    {JArray(<<>>), EmptyObject, Str("x"), JNull}
      \cup {JArray(<<c>>) : c \in Containers}
      \cup {JArray(<<c1, c2>>) : c1 \in FewContainers, c2 \in FewContainers}
      \cup {JArray(<<c1, c2, c3>>) :
                c1 \in OrderContainers, c2 \in OrderContainers, c3 \in OrderContainers}

FewTableValues ==
    {JArray(<<>>), Str("x"),
     JArray(<<Obj1("PutRequest", Obj1("Item", IdOne))>>),
     JArray(<<Obj1("DeleteRequest", Obj1("Key", IdAndName))>>),
     JArray(<<Str("x")>>)}

UnprocessedItemsValues ==
    {EmptyObject}
      \cup NotObjects
      \cup {Obj1("T", tv) : tv \in TableValues}
      \cup {Obj2("T1", tv1, "T2", tv2) : tv1 \in FewTableValues, tv2 \in FewTableValues}

WriteReplies ==
    {TransportFailure, Body(Garbage)}
      \cup {Body(Obj1("UnprocessedItems", u)) : u \in UnprocessedItemsValues}
      \cup {Body(x) : x \in NotObjects}
      \cup {Body(EmptyObject), Body(Obj1("ConsumedCapacity", EmptyObject))}

----------------------------------------------------------------------------
(* The specification of the validation of every operation that has one:   *)
(* the request was built before, by puts of one Item into one table.       *)

\* The Items the caller holds, with one that has no attributes.
AllItems ==
    [id \in (DOMAIN BatchItems) \cup {"empty"} |->
        IF id = "empty" THEN NewItem ELSE BatchItems[id]]

RECURSIVE Built(_, _)
Built(n, item) ==
    IF n = 0 THEN NewBatchWriteItemRequest
    ELSE AddPutRequestTo(Built(n - 1, item), MainTable, item)

AttributeLists ==
    {<<>>,
     <<NewStringAttribute("name", "a")>>,
     <<NewNumericAttribute("count", "1"), NewStringAttribute("name", "a")>>}

InitValidation ==
    /\ heap = AllItems
    /\ request \in {Built(n, item) : n \in 0..MaxItems, item \in DOMAIN BatchItems}
    /\ batchGetItem = NoBatchGetItem
    /\ threads = NoThreads
    /\ op = "none"
    /\ calls = <<>>
    /\ reply = NoReply
    /\ ret = Nil
    /\ err = NoErr

NextValidation ==
    \/ BatchWriteItem(BasicReplies)
    \/ \E item \in DOMAIN heap : PutItem(item, AckReplies)
    \/ \E key \in Keys, attributes \in AttributeLists :
          AddAttributes(key, attributes, AckReplies)
    \/ \E key \in Keys, attributes \in AttributeLists :
          UpdateAttributes(key, attributes, AckReplies)
    \/ \E key \in Keys, attributes \in AttributeLists :
          DeleteAttributes(key, attributes, AckReplies)

SpecValidation == InitValidation /\ [][NextValidation]_vars

----------------------------------------------------------------------------
(* The specification of the decoding of batch-write responses: a request   *)
(* that passes the validation, and every response of WriteReplies.         *)

InitParse ==
    /\ heap = BatchItems
    /\ request \in {Built(1, "small"), Built(2, "small")}
    /\ batchGetItem = NoBatchGetItem
    /\ threads = NoThreads
    /\ op = "none"
    /\ calls = <<>>
    /\ reply = NoReply
    /\ ret = Nil
    /\ err = NoErr

NextParse == BatchWriteItem(WriteReplies)

SpecParse == InitParse /\ [][NextParse]_vars

----------------------------------------------------------------------------
(* The specification of the single-item operations.                        *)

InitItem ==
    /\ heap = AllItems
    /\ request = NewBatchWriteItemRequest
    /\ batchGetItem = NoBatchGetItem
    /\ threads = NoThreads
    /\ op = "none"
    /\ calls = <<>>
    /\ reply = NoReply
    /\ ret = Nil
    /\ err = NoErr

NextItem ==
    \/ \E key \in Keys : GetItem(key, GetReplies)
    \/ \E item \in DOMAIN heap : PutItem(item, AckReplies)
    \/ \E key \in Keys : DeleteItem(key, AckReplies)
    \/ \E key \in Keys, attributes \in AttributeLists :
          AddAttributes(key, attributes, AckReplies)
    \/ \E key \in Keys, attributes \in AttributeLists :
          UpdateAttributes(key, attributes, AckReplies)
    \/ \E key \in Keys, attributes \in AttributeLists :
          DeleteAttributes(key, attributes, AckReplies)

SpecItem == InitItem /\ [][NextItem]_vars

----------------------------------------------------------------------------
(* The specification of the attribute codec: the caller holds one Item,    *)
(* the backing store holds its encoding and answers GetItem with it.       *)

ScalarValues == {"", "a", "1"}
SetValueLists == {<<>>, <<"a">>, <<"b", "a">>, <<"1", "1">>}

AttributesNamed(name) ==
    {Attribute(type, name, value, <<>>) : type \in ScalarTypes, value \in ScalarValues}
      \cup {Attribute(type, name, "", values) : type \in SetTypes, values \in SetValueLists}

CodecItems ==
    {AddAttribute(NewItem, a) : a \in AttributesNamed("id")}
      \cup {AddAttribute(AddAttribute(NewItem, a), b) :
                a \in AttributesNamed("id"), b \in AttributesNamed("name")}

Stored(item) == Body(Obj1("Item", attributeList(GetAttributes(item))))

InitCodec ==
    /\ heap \in {[id \in {"a"} |-> item] : item \in CodecItems}
    /\ request = NewBatchWriteItemRequest
    /\ batchGetItem = NoBatchGetItem
    /\ threads = NoThreads
    /\ op = "none"
    /\ calls = <<>>
    /\ reply = NoReply
    /\ ret = Nil
    /\ err = NoErr

NextCodec ==
    \E key \in Keys : GetItem(key, {Stored(heap[id]) : id \in DOMAIN heap})

SpecCodec == InitCodec /\ [][NextCodec]_vars

----------------------------------------------------------------------------
(* The specification of the transport calls: every operation that calls   *)
(* the transport, on a request and a batch get built before.               *)

EntryLists ==
    {JArray(<<>>), JArray(<<IdOne>>), JArray(<<IdOne, IdAndName>>),
     JArray(<<IdOne, Str("x")>>), Str("x"), EmptyObject}

ResponsesValues ==
    {EmptyObject}
      \cup NotObjects
      \cup {Obj1("T1", e) : e \in EntryLists}
      \cup {Obj2("T1", e1, "T2", e2) : e1 \in EntryLists, e2 \in EntryLists}

ReadReplies ==
    {TransportFailure, Body(Garbage), Body(EmptyObject), Body(Str("x"))}
      \cup {Body(Obj1("Responses", r)) : r \in ResponsesValues}

\* A BatchGetItem the caller built before: two tables, three keys.
BuiltBatchGetItem ==
    AddTableTo(NewBatchGetItem("T1", <<[HashKey |-> "1", RangeKey |-> ""]>>),
               "T2", <<[HashKey |-> "2", RangeKey |-> "r"],
                       [HashKey |-> "1", RangeKey |-> ""]>>)

InitTransport ==
    /\ heap = AllItems
    /\ request = Built(1, "small")
    /\ batchGetItem = BuiltBatchGetItem
    /\ threads = NoThreads
    /\ op = "none"
    /\ calls = <<>>
    /\ reply = NoReply
    /\ ret = Nil
    /\ err = NoErr

NextTransport ==
    \/ \E key \in Keys : GetItem(key, GetReplies)
    \/ \E item \in DOMAIN heap : PutItem(item, AckReplies)
    \/ \E key \in Keys : DeleteItem(key, AckReplies)
    \/ \E key \in Keys, attributes \in AttributeLists :
          AddAttributes(key, attributes, AckReplies)
    \/ \E key \in Keys, attributes \in AttributeLists :
          UpdateAttributes(key, attributes, AckReplies)
    \/ \E key \in Keys, attributes \in AttributeLists :
          DeleteAttributes(key, attributes, AckReplies)
    \/ BatchWriteItem(BasicReplies)
    \/ Execute(ReadReplies)

SpecTransport == InitTransport /\ [][NextTransport]_vars

----------------------------------------------------------------------------
(* The specification of the batch get: its builder and its execution.      *)

InitBatchGet ==
    /\ heap = AllItems
    /\ request = NewBatchWriteItemRequest
    /\ batchGetItem = NoBatchGetItem
    /\ threads = NoThreads
    /\ op = "none"
    /\ calls = <<>>
    /\ reply = NoReply
    /\ ret = Nil
    /\ err = NoErr

NextBatchGet ==
    \/ \E t \in Tables, keys \in KeyLists : BatchGetItems(t, keys)
    \/ \E t \in Tables, keys \in KeyLists : AddTable(t, keys)
    \/ Execute(ReadReplies)

SpecBatchGet == InitBatchGet /\ [][NextBatchGet]_vars

----------------------------------------------------------------------------
(* The specification of the Item builder: the caller makes an Item and     *)
(* adds attributes to it.                                                  *)

\* The attributes the caller adds: two of them share a name, and one of a
\* set type has its Value field filled as well.
AttributeChoices ==
    {NewStringAttribute("name", "a"), NewStringAttribute("name", "b"),
     NewNumericAttribute("id", "1"),
     Attribute(TYPE_STRING_SET, "tags", "", <<"b", "a">>),
     Attribute(TYPE_NUMBER_SET, "sizes", "xy", <<"1">>)}

\* item.AddAttribute(attribute), by the caller
CallAddAttribute(item, attribute) ==
    /\ heap' = [heap EXCEPT ![item] = AddAttribute(@, attribute)]
    /\ Returned("AddAttribute", Nil, NoErr)
    /\ UNCHANGED <<request, batchGetItem, threads>>

\* item.GetSize(), by the caller
CallGetSize(item) ==
    /\ Returned("GetSize", IntVal(GetSize(heap[item])), NoErr)
    /\ UNCHANGED <<heap, request, batchGetItem, threads>>

InitBuild ==
    /\ heap = [id \in {"a"} |-> NewItem]
    /\ request = NewBatchWriteItemRequest
    /\ batchGetItem = NoBatchGetItem
    /\ threads = NoThreads
    /\ op = "none"
    /\ calls = <<>>
    /\ reply = NoReply
    /\ ret = Nil
    /\ err = NoErr

NextBuild ==
    \/ \E item \in DOMAIN heap, attribute \in AttributeChoices :
          /\ Len(heap[item].attributes) < MaxAttributes
          /\ CallAddAttribute(item, attribute)
    \/ \E item \in DOMAIN heap : CallGetSize(item)

SpecBuild == InitBuild /\ [][NextBuild]_vars

----------------------------------------------------------------------------
(* The specification of the two batch decoders: a batch write and a batch  *)
(* get built before, and every response of WriteReplies and ReadReplies.   *)

InitDecode ==
    /\ heap = AllItems
    /\ request = Built(1, "small")
    /\ batchGetItem = BuiltBatchGetItem
    /\ threads = NoThreads
    /\ op = "none"
    /\ calls = <<>>
    /\ reply = NoReply
    /\ ret = Nil
    /\ err = NoErr

NextDecode ==
    \/ BatchWriteItem(WriteReplies)
    \/ Execute(ReadReplies)

SpecDecode == InitDecode /\ [][NextDecode]_vars

----------------------------------------------------------------------------
(* The specification of the Items a request holds: the caller keeps its    *)
(* handles to the Items it adds to the request, and goes on using them.    *)

\* What the caller appends through a handle: one byte.
LateAttribute == NewStringAttribute("note", "x")

InitHandles ==
    /\ heap = [id \in {"small", "limit"} |-> BatchItems[id]]
    /\ request = NewBatchWriteItemRequest
    /\ batchGetItem = NoBatchGetItem
    /\ threads = NoThreads
    /\ op = "none"
    /\ calls = <<>>
    /\ reply = NoReply
    /\ ret = Nil
    /\ err = NoErr

NextHandles ==
    \/ \E table \in Tables, item \in DOMAIN heap :
          TotalItems(request) < MaxHeld /\ AddPutRequest(table, item)
    \/ \E table \in Tables, item \in DOMAIN heap :
          TotalItems(request) < MaxHeld /\ AddDeleteRequest(table, item)
    \/ \E item \in DOMAIN heap :
          /\ Len(heap[item].attributes) < MaxAttributes
          /\ CallAddAttribute(item, LateAttribute)
    \/ BatchWriteItem(BasicReplies)

SpecHandles == InitHandles /\ [][NextHandles]_vars

----------------------------------------------------------------------------
(* The specification of two threads on one builder.  Each thread makes one *)
(* call, on the same BatchWriteItemRequest and the same Items, with no     *)
(* lock: the steps of the two calls interleave.                            *)

IsRequestCall(call) == call.method \in {"AddPutRequest", "AddDeleteRequest"}

ThreadCalls ==
    {BuilderCall(method, table, item) :
        method \in {"AddPutRequest", "AddDeleteRequest"},
        table \in Tables, item \in {"small", "limit"}}
      \cup {BuilderCall("AddAttribute", "", item) : item \in {"small", "limit"}}

\* The list a call appends to, as it is now.
TargetList(call) ==
    CASE call.method = "AddPutRequest" -> request.operations[call.table].putRequest
      [] call.method = "AddDeleteRequest" -> request.operations[call.table].deleteRequest
      [] call.method = "AddAttribute" -> heap[call.item].attributes

\* What a call appends: the Item, or the attribute.
Entry(call) == IF IsRequestCall(call) THEN call.item ELSE LateAttribute

\* A thread enters a builder method.
ThreadCall(th, call) ==
    /\ threads[th].pc = "idle"
    /\ threads' = [threads EXCEPT ![th] =
          [pc |-> IF IsRequestCall(call) THEN "check" ELSE "read",
           call |-> call, local |-> <<>>]]
    /\ UNCHANGED <<heap, request, batchGetItem, op, calls, reply, ret, err>>

\* if _, ok := b.operations[table]; !ok
ThreadCheck(th) ==
    /\ threads[th].pc = "check"
    /\ threads' = [threads EXCEPT ![th].pc =
          IF threads[th].call.table \in DOMAIN request.operations
          THEN "read" ELSE "create"]
    /\ UNCHANGED <<heap, request, batchGetItem, op, calls, reply, ret, err>>

\* Another thread that has read the list of this table's entry and has yet
\* to write it: it holds the pointer to the entry it read from.
HoldsEntry(other, table) ==
    /\ threads[other].pc = "write"
    /\ IsRequestCall(threads[other].call)
    /\ threads[other].call.table = table

\* b.operations[table] = &BatchWriteItemOperations{}: a new, empty entry
\* takes the place of whatever the map held for the table; a thread that
\* holds the old entry will write to an entry the map no longer holds.
ThreadCreate(th) ==
    /\ threads[th].pc = "create"
    /\ request' = [request EXCEPT !.operations =
          MapPut(@, threads[th].call.table, NewBatchWriteItemOperations)]
    /\ threads' = [other \in Threads |->
          IF other = th THEN [threads[th] EXCEPT !.pc = "read"]
          ELSE IF HoldsEntry(other, threads[th].call.table)
               THEN [threads[other] EXCEPT !.pc = "orphan"]
               ELSE threads[other]]
    /\ UNCHANGED <<heap, batchGetItem, op, calls, reply, ret, err>>

\* The right-hand side of the append statement: the list as it is now.
ThreadRead(th) ==
    /\ threads[th].pc = "read"
    /\ threads' = [threads EXCEPT ![th].pc = "write",
                                  ![th].local = TargetList(threads[th].call)]
    /\ UNCHANGED <<heap, request, batchGetItem, op, calls, reply, ret, err>>

\* The same statement under a lock held from the read to the write: the
\* entry is appended to the list as it is at the write.
ThreadWriteLocked(th) ==
    LET call == threads[th].call
        list == Append(TargetList(call), Entry(call)) IN
    /\ threads[th].pc = "write"
    /\ request' =
          CASE call.method = "AddPutRequest" ->
                  [request EXCEPT !.operations[call.table].putRequest = list]
            [] call.method = "AddDeleteRequest" ->
                  [request EXCEPT !.operations[call.table].deleteRequest = list]
            [] OTHER -> request
    /\ heap' = IF call.method = "AddAttribute"
               THEN [heap EXCEPT ![call.item].attributes = list] ELSE heap
    /\ threads' = [threads EXCEPT ![th].pc = "done"]
    /\ UNCHANGED <<batchGetItem, op, calls, reply, ret, err>>

\* The assignment of the append statement: the list read, with the entry
\* at its end, replaces the list, whatever the list has become since.
ThreadWrite(th) ==
    LET call == threads[th].call
        list == Append(threads[th].local, Entry(call)) IN
    /\ threads[th].pc = "write"
    /\ request' =
          CASE call.method = "AddPutRequest" ->
                  [request EXCEPT !.operations[call.table].putRequest = list]
            [] call.method = "AddDeleteRequest" ->
                  [request EXCEPT !.operations[call.table].deleteRequest = list]
            [] OTHER -> request
    /\ heap' = IF call.method = "AddAttribute"
               THEN [heap EXCEPT ![call.item].attributes = list] ELSE heap
    /\ threads' = [threads EXCEPT ![th].pc = "done"]
    /\ UNCHANGED <<batchGetItem, op, calls, reply, ret, err>>

\* The assignment, by a thread whose entry the map no longer holds: the
\* request does not change.
ThreadWriteOrphan(th) ==
    /\ threads[th].pc = "orphan"
    /\ threads' = [threads EXCEPT ![th].pc = "done"]
    /\ UNCHANGED <<heap, request, batchGetItem, op, calls, reply, ret, err>>

\* A thread at a step that reads or writes the operations map.
OnMap(th) ==
    /\ IsRequestCall(threads[th].call)
    /\ threads[th].pc \in {"check", "create", "read"}

\* The Go runtime may find the map written by one thread while another
\* uses it, and end the program ("concurrent map writes").
ThreadFault(th) ==
    /\ threads[th].pc = "create"
    /\ \E other \in Threads \ {th} : OnMap(other)
    /\ threads' = [other \in Threads |-> [threads[other] EXCEPT !.pc = "crashed"]]
    /\ UNCHANGED <<heap, request, batchGetItem, op, calls, reply, ret, err>>

InitThreads ==
    /\ heap = [id \in {"small", "limit"} |-> BatchItems[id]]
    /\ request = NewBatchWriteItemRequest
    /\ batchGetItem = NoBatchGetItem
    /\ threads = NoThreads
    /\ op = "none"
    /\ calls = <<>>
    /\ reply = NoReply
    /\ ret = Nil
    /\ err = NoErr

NextThreads ==
    \/ \E th \in Threads, call \in ThreadCalls : ThreadCall(th, call)
    \/ \E th \in Threads : ThreadCheck(th)
    \/ \E th \in Threads : ThreadCreate(th)
    \/ \E th \in Threads : ThreadRead(th)
    \/ \E th \in Threads : ThreadWrite(th)
    \/ \E th \in Threads : ThreadWriteOrphan(th)
    \/ \E th \in Threads : ThreadFault(th)

SpecThreads == InitThreads /\ [][NextThreads]_vars

----------------------------------------------------------------------------
(* The specification of the assembly of a request: on a new                *)
(* BatchWriteItemRequest the caller adds Items, sets the flags and asks    *)
(* for the Items, in any order.                                            *)

MaxCalls == 3

SeqVal(s) == [k |-> "seq", v |-> s]

\* b.returnConsumedCapacity = value
SetReturnConsumedCapacity(value) ==
    /\ request' = [request EXCEPT !.returnConsumedCapacity = value]
    /\ Returned("SetReturnConsumedCapacity", Nil, NoErr)
    /\ UNCHANGED <<heap, batchGetItem, threads>>

\* b.returnItemCollecionMetrics = value
SetReturnItemCollecionMetrics(value) ==
    /\ request' = [request EXCEPT !.returnItemCollecionMetrics = value]
    /\ Returned("SetReturnItemCollecionMetrics", Nil, NoErr)
    /\ UNCHANGED <<heap, batchGetItem, threads>>

\* b.GetItems(), by the caller
CallGetItems ==
    /\ \E order \in Orders(request) :
          Returned("GetItems", SeqVal(GetItems(request, order)), NoErr)
    /\ UNCHANGED <<heap, request, batchGetItem, threads>>

InitAssemble ==
    /\ heap = [id \in {"small", "limit"} |-> BatchItems[id]]
    /\ request = NewBatchWriteItemRequest
    /\ batchGetItem = NoBatchGetItem
    /\ threads = NoThreads
    /\ op = "none"
    /\ calls = <<>>
    /\ reply = NoReply
    /\ ret = Nil
    /\ err = NoErr

NextAssemble ==
    \/ \E table \in Tables, item \in DOMAIN heap :
          TotalItems(request) < MaxCalls /\ AddPutRequest(table, item)
    \/ \E table \in Tables, item \in DOMAIN heap :
          TotalItems(request) < MaxCalls /\ AddDeleteRequest(table, item)
    \/ \E value \in BOOLEAN : SetReturnConsumedCapacity(value)
    \/ \E value \in BOOLEAN : SetReturnItemCollecionMetrics(value)
    \/ CallGetItems

SpecAssemble == InitAssemble /\ [][NextAssemble]_vars

----------------------------------------------------------------------------
(* The specification of the decoding of one field: GetItem is answered     *)
(* with an item whose field "id" carries up to MaxTags of the six type     *)
(* tags, each with a value of any JSON type.  The caller makes one call.   *)

MaxTags == 2

TagValues ==
    {Str("a"), Str(""), JNull, EmptyObject,
     JArray(<<>>), JArray(<<Str("1")>>), JArray(<<Str("a"), JNull, Str("b")>>)}

TaggedWires ==
    {JObject(f) : f \in UNION {[tags -> TagValues] :
        tags \in {S \in SUBSET (ScalarTypes \cup SetTypes) : Cardinality(S) <= MaxTags}}}

TagReplies == {Body(Obj1("Item", Obj1("id", wire))) : wire \in TaggedWires}

InitTags ==
    /\ heap = AllItems
    /\ request = NewBatchWriteItemRequest
    /\ batchGetItem = NoBatchGetItem
    /\ threads = NoThreads
    /\ op = "none"
    /\ calls = <<>>
    /\ reply = NoReply
    /\ ret = Nil
    /\ err = NoErr

NextTags == op = "none" /\ \E key \in Keys : GetItem(key, TagReplies)

SpecTags == InitTags /\ [][NextTags]_vars

----------------------------------------------------------------------------
(* AutoScaling: the scheduled actions.  A time.Time is its UTC clock       *)
(* reading; the parameters of a call are the fields of the form sent.      *)

Time(year, month, day, hour, minute, second, nsec) ==
    [year |-> year, month |-> month, day |-> day,
     hour |-> hour, minute |-> minute, second |-> second, nsec |-> nsec]

\* The zero value of time.Time: January 1, year 1, 00:00:00.000000000 UTC.
ZeroTime == Time(1, 1, 1, 0, 0, 0, 0)

\* t.IsZero()
IsZero(t) == t = ZeroTime

Digits == <<"0", "1", "2", "3", "4", "5", "6", "7", "8", "9">>

\* strconv.Itoa
RECURSIVE Itoa(_)
Itoa(n) ==
    IF n < 0 THEN "-" \o Itoa(0 - n)
    ELSE IF n < 10 THEN Digits[n + 1]
    ELSE Itoa(n \div 10) \o Digits[(n % 10) + 1]

\* A number of the layout, with leading zeros up to `width` digits.
RECURSIVE Pad(_, _)
Pad(n, width) ==
    IF width <= 1 THEN Itoa(n)
    ELSE IF n < 10 THEN "0" \o Pad(n, width - 1)
    ELSE Pad(n \div 10, width - 1) \o Digits[(n % 10) + 1]

\* t.Format(time.RFC3339), "2006-01-02T15:04:05Z07:00", of a UTC time: the
\* layout has no fraction of a second.
Format(t) ==
    Pad(t.year, 4) \o "-" \o Pad(t.month, 2) \o "-" \o Pad(t.day, 2) \o "T"
      \o Pad(t.hour, 2) \o ":" \o Pad(t.minute, 2) \o ":" \o Pad(t.second, 2) \o "Z"

makeParams(action) == "Action" :> action

\* fmt.Sprintf("ScheduledActionNames.member.%d", i+1) for each name
RECURSIVE ActionNameParams(_, _, _)
ActionNameParams(params, actionNames, i) ==
    IF i > Len(actionNames) THEN params
    ELSE ActionNameParams(
            MapPut(params, "ScheduledActionNames.member." \o Itoa(i), actionNames[i]),
            actionNames, i + 1)

\* The parameters DescribeScheduledActions hands to as.query.
DescribeScheduledActionsParams(asgName, actionNames, sTime, eTime, maxRecords, nextToken) ==
    LET p0 == makeParams("DescribeScheduledActions")
        p1 == IF asgName # "" THEN MapPut(p0, "AutoScalingGroupName", asgName) ELSE p0
        p2 == IF maxRecords # 0 THEN MapPut(p1, "MaxRecords", Itoa(maxRecords)) ELSE p1
        p3 == IF nextToken # "" THEN MapPut(p2, "NextToken", nextToken) ELSE p2
        p4 == IF ~IsZero(eTime) THEN MapPut(p3, "EndTime", Format(eTime)) ELSE p3
        p5 == IF IsZero(sTime) THEN MapPut(p4, "StartTime", Format(sTime)) ELSE p4
    IN ActionNameParams(p5, actionNames, 1)

\* The parameters PutScheduledUpdateGroupAction hands to as.query.
PutScheduledUpdateGroupActionParams(options) ==
    LET p0 == makeParams("PutScheduledUpdateGroupAction")
        p1 == MapPut(p0, "AutoScalingGroupName", options.AutoScalingGroupName)
        p2 == MapPut(p1, "ScheduledActionName", options.ScheduledActionName)
        p3 == IF options.DesiredCapacity # 0
              THEN MapPut(p2, "DesiredCapacity", Itoa(options.DesiredCapacity)) ELSE p2
        p4 == IF ~IsZero(options.StartTime)
              THEN MapPut(p3, "StartTime", Format(options.StartTime)) ELSE p3
        p5 == IF ~IsZero(options.EndTime)
              THEN MapPut(p4, "EndTime", Format(options.EndTime)) ELSE p4
        p6 == IF options.MinSize # 0 THEN MapPut(p5, "MinSize", Itoa(options.MinSize)) ELSE p5
        p7 == IF options.MaxSize # 0 THEN MapPut(p6, "MaxSize", Itoa(options.MaxSize)) ELSE p6
    IN IF options.Recurrence # "" THEN MapPut(p7, "Recurrence", options.Recurrence) ELSE p7

\* What the endpoint answers: a status and a document.
HttpReply(status, doc) == Body([k |-> "http", v |-> [doc |-> doc, status |-> status]])
XmlGarbage == [k |-> "garbage", v |-> "garbage"]
XmlErrors(message) == [k |-> "ErrorResponse", v |-> message]
XmlResponse(fields) == [k |-> "Response", v |-> fields]

XmlSyntaxError == Error("xml syntax", NoFragment)

\* buildError: the first error of the document, or the status.
buildError(r) ==
    IF r.doc.k = "ErrorResponse" /\ r.doc.v # "" THEN Error(r.doc.v, NoFragment)
    ELSE Error(Itoa(r.status), NoFragment)

\* The client: AutoScaling{Region{AutoScalingEndpoint}}.
AutoScaling(endpoint) == [AutoScalingEndpoint |-> endpoint]

\* The error of http.NewRequest("POST", endpoint+"/", data): that of
\* url.Parse, which refuses "%zz/" for its escape.
NewRequestError(endpoint) ==
    IF endpoint = "%zz" THEN Error("parse: invalid URL escape", NoFragment) ELSE NoErr

\* The fields of the response structs that the model keeps.
GenericResp == {"RequestId"}
DescribeScheduledActionsResp == {"NextToken", "RequestId"}

\* xml.NewDecoder(r.Body).Decode(resp): the fields of resp the document
\* has are set, the others keep their zero value; a document of another
\* root element sets none, for no response struct names its root.
Decode(doc, resp) ==
    [field \in resp |->
        IF doc.k = "Response" /\ field \in DOMAIN doc.v THEN doc.v[field] ELSE ""]

\* as.query(params, resp): the call, and what it makes of the answer.
query(as, name, params, resp, rep) ==
    LET q == Query("autoscaling", MapPut(params, "Version", "2011-01-01"))
        failed == NewRequestError(as.AutoScalingEndpoint) IN
    IF failed # NoErr THEN Returned(name, Nil, failed)
    ELSE IF rep.err # NoErr THEN Dispatched(name, q, rep, Nil, rep.err)
    ELSE IF rep.body.v.status # 200
         THEN Dispatched(name, q, rep, Nil, buildError(rep.body.v))
    ELSE IF rep.body.v.doc.k = XmlGarbage.k
         THEN Dispatched(name, q, rep, Nil, XmlSyntaxError)
    ELSE Dispatched(name, q, rep, MapVal(Decode(rep.body.v.doc, resp)), NoErr)

\* AutoScaling.DescribeScheduledActions
DescribeScheduledActions(as, asgName, actionNames, sTime, eTime, maxRecords, nextToken, replies) ==
    /\ \E rep \in replies :
          query(as, "DescribeScheduledActions",
                DescribeScheduledActionsParams(asgName, actionNames, sTime, eTime,
                                               maxRecords, nextToken),
                DescribeScheduledActionsResp, rep)
    /\ UNCHANGED <<heap, request, batchGetItem, threads>>

\* AutoScaling.PutScheduledUpdateGroupAction
PutScheduledUpdateGroupAction(as, options, replies) ==
    /\ \E rep \in replies :
          query(as, "PutScheduledUpdateGroupAction",
                PutScheduledUpdateGroupActionParams(options), GenericResp, rep)
    /\ UNCHANGED <<heap, request, batchGetItem, threads>>

----------------------------------------------------------------------------
(* The specification of the scheduled actions of one AutoScaling client,   *)
(* which makes one call.                                                   *)

MaxNames == 2

Times == {ZeroTime, Time(2014, 5, 13, 16, 53, 20, 0), Time(1, 1, 1, 0, 0, 0, 7)}

ActionNameLists == {SubSeq(<<"a", "b", "c", "d">>, 1, n) : n \in 0..MaxNames}

ScheduledOptions ==
    {[AutoScalingGroupName |-> "g", ScheduledActionName |-> "a",
      DesiredCapacity |-> capacity, StartTime |-> sTime, EndTime |-> eTime,
      MinSize |-> 0, MaxSize |-> 12, Recurrence |-> recurrence] :
        capacity \in {0, 3}, sTime \in Times, eTime \in Times,
        recurrence \in {"", "0 8 * * *"}}

AutoScalingReplies ==
    {TransportFailure,
     HttpReply(400, XmlErrors("ValidationError")),
     HttpReply(503, XmlGarbage),
     HttpReply(200, XmlGarbage),
     HttpReply(200, XmlErrors("ValidationError")),
     HttpReply(200, XmlResponse([NextToken |-> "", RequestId |-> "r1"])),
     HttpReply(200, XmlResponse([NextToken |-> "tok", RequestId |-> "r2"]))}

AutoScalingClients ==
    {AutoScaling("https://autoscaling.us-east-1.amazonaws.com"), AutoScaling("%zz")}

InitAutoScaling ==
    /\ heap = AllItems
    /\ request = NewBatchWriteItemRequest
    /\ batchGetItem = NoBatchGetItem
    /\ threads = NoThreads
    /\ op = "none"
    /\ calls = <<>>
    /\ reply = NoReply
    /\ ret = Nil
    /\ err = NoErr

NextAutoScaling ==
    \/ \E as \in AutoScalingClients,
          asgName \in {"", "g"}, actionNames \in ActionNameLists,
          sTime \in Times, eTime \in Times,
          maxRecords \in {0, 10}, nextToken \in {"", "tok"} :
          /\ op = "none"
          /\ DescribeScheduledActions(as, asgName, actionNames, sTime, eTime,
                                      maxRecords, nextToken, AutoScalingReplies)
    \/ \E as \in AutoScalingClients, options \in ScheduledOptions :
          /\ op = "none"
          /\ PutScheduledUpdateGroupAction(as, options, AutoScalingReplies)

SpecAutoScaling == InitAutoScaling /\ [][NextAutoScaling]_vars

----------------------------------------------------------------------------
(* What the properties below speak of: the request as BatchWriteItem saw   *)
(* it (the operation leaves it as it was), counted and measured without    *)
(* the operation's own loops.                                              *)

Lists(b) ==
    {b.operations[t].deleteRequest : t \in DOMAIN b.operations}
      \cup {b.operations[t].putRequest : t \in DOMAIN b.operations}

\* The Items (pointers) a request holds.
ItemsOf(b) == UNION {{l[k] : k \in DOMAIN l} : l \in Lists(b)}

Bytes(item) == GetSize(heap[item])

\* How often an Item occurs in a request, over all tables and both lists.
CountIn(l, item) == Cardinality({k \in DOMAIN l : l[k] = item})

RECURSIVE OccurrencesOver(_, _, _)
OccurrencesOver(b, tables, item) ==
    IF tables = {} THEN 0
    ELSE LET t == CHOOSE x \in tables : TRUE IN
         CountIn(b.operations[t].deleteRequest, item)
           + CountIn(b.operations[t].putRequest, item)
           + OccurrencesOver(b, tables \ {t}, item)

Occurrences(b, item) == OccurrencesOver(b, DOMAIN b.operations, item)

RECURSIVE WeightedBytes(_, _)
WeightedBytes(b, items) ==
    IF items = {} THEN 0
    ELSE LET i == CHOOSE x \in items : TRUE IN
         Occurrences(b, i) * Bytes(i) + WeightedBytes(b, items \ {i})

NumItems == TotalItems(request)
NumBytes == WeightedBytes(request, ItemsOf(request))
SomeItemOver == \E i \in ItemsOf(request) : Bytes(i) > 65536
BatchErrors == {TooManyItems, EmptyRequest, ItemTooLarge, RequestTooLarge}
InDelete(t, item) ==
    /\ t \in DOMAIN request.operations
    /\ \E k \in DOMAIN request.operations[t].deleteRequest :
          request.operations[t].deleteRequest[k] = item
InPut(t, item) ==
    /\ t \in DOMAIN request.operations
    /\ \E k \in DOMAIN request.operations[t].putRequest :
          request.operations[t].putRequest[k] = item

\* C1: BatchWriteItem returns TooManyItems exactly when the request holds
\* more than 25 items, counted over all tables and both lists; a request of
\* exactly 25 items whose sizes are within the limits fails no validation
\* check and is sent to the transport.
C1_TooManyItems ==
    op = "BatchWriteItem" =>
        /\ (err = TooManyItems) <=> (NumItems > 25)
        /\ NumItems = 26 => err = TooManyItems /\ calls = <<>>
        /\ (NumItems = 25 /\ ~SomeItemOver /\ NumBytes <= 1048576) =>
              /\ err \notin BatchErrors
              /\ Len(calls) = 1
              /\ calls[1].target = "BatchWriteItem"

\* 26 items split over both tables and both lists are refused.
C1_Witness ==
    /\ op = "BatchWriteItem"
    /\ NumItems = 26
    /\ InPut("T1", "small")
    /\ InDelete("T2", "small")
    /\ err = TooManyItems

\* C2: BatchWriteItem on a request to which nothing was added returns
\* EmptyRequest (and nothing else), without a transport call.
C2_EmptyRequest ==
    (op = "BatchWriteItem" /\ request = NewBatchWriteItemRequest) =>
        /\ err = EmptyRequest
        /\ ret = Nil
        /\ calls = <<>>

C2_Witness ==
    /\ op = "BatchWriteItem"
    /\ request = NewBatchWriteItemRequest
    /\ err = EmptyRequest

\* C3: with 1 to 25 items, BatchWriteItem returns ItemTooLarge exactly when
\* some item's size is over 65536: the item whose one string attribute has
\* 65537 bytes is refused, an item of exactly 65536 bytes is not.
C3_ItemTooLarge ==
    (op = "BatchWriteItem" /\ NumItems \in 1..25) =>
        /\ (err = ItemTooLarge) <=> SomeItemOver
        /\ "over" \in ItemsOf(request) => err = ItemTooLarge
        /\ ItemsOf(request) = {"limit"} => err # ItemTooLarge

\* One item of 65537 bytes among items of 65536 bytes is refused.
C3_Witness ==
    /\ op = "BatchWriteItem"
    /\ NumItems \in 1..25
    /\ ItemsOf(request) = {"limit", "over"}
    /\ Len(heap["over"].attributes) = 1
    /\ heap["over"].attributes[1].Type = TYPE_STRING
    /\ len(heap["over"].attributes[1].Value) = 65537
    /\ err = ItemTooLarge

\* C4: with 1 to 25 items, none over 65536 bytes, BatchWriteItem returns
\* RequestTooLarge exactly when the sizes sum to more than 1048576: 17 items
\* of 65536 bytes are refused, 16 of them are sent.
C4_RequestTooLarge ==
    (op = "BatchWriteItem" /\ NumItems \in 1..25 /\ ~SomeItemOver) =>
        /\ (err = RequestTooLarge) <=> (NumBytes > 1048576)
        /\ (ItemsOf(request) = {"limit"} /\ NumItems = 17) => err = RequestTooLarge
        /\ (ItemsOf(request) = {"limit"} /\ NumItems = 16) =>
              err \notin BatchErrors /\ Len(calls) = 1

C4_Witness ==
    /\ op = "BatchWriteItem"
    /\ ItemsOf(request) = {"limit"}
    /\ Bytes("limit") = 65536
    /\ NumItems = 17
    /\ err = RequestTooLarge

\* C5: when more than one limit is violated, the first violated check in
\* the order count, item size, aggregate size is the one reported: too
\* many items win over an oversized item, and an oversized item wins over
\* the aggregate size wherever it sits among the items.
C5_FirstViolatedCheck ==
    op = "BatchWriteItem" =>
        /\ (NumItems > 25 /\ (SomeItemOver \/ NumBytes > 1048576)) =>
              err = TooManyItems
        /\ (NumItems \in 1..25 /\ SomeItemOver /\ NumBytes > 1048576) =>
              err = ItemTooLarge

\* The oversized item is the last of the items, after 16 items that
\* already sum to the aggregate limit.
C5_Witness ==
    /\ op = "BatchWriteItem"
    /\ NumItems = 17
    /\ DOMAIN request.operations = {"T1"}
    /\ request.operations["T1"].deleteRequest = <<>>
    /\ request.operations["T1"].putRequest[17] = "over"
    /\ \A k \in 1..16 : request.operations["T1"].putRequest[k] = "limit"
    /\ err = ItemTooLarge

ValidatingOperations ==
    {"BatchWriteItem", "PutItem", "AddAttributes", "UpdateAttributes", "DeleteAttributes"}

\* C6: an operation that returns a validation error has made no transport
\* call, and a batch that violates a limit never reaches the transport.
C6_ValidationBeforeTransport ==
    /\ (op \in ValidatingOperations /\ err \in BatchErrors \cup {ValidationError}) =>
          calls = <<>> /\ reply = NoReply
    /\ (op = "BatchWriteItem"
          /\ (NumItems = 0 \/ NumItems > 25 \/ SomeItemOver \/ NumBytes > 1048576)) =>
          calls = <<>> /\ err \in BatchErrors

\* A batch with an oversized item was refused without a call.
C6_Witness ==
    /\ op = "BatchWriteItem"
    /\ SomeItemOver
    /\ err = ItemTooLarge
    /\ calls = <<>>

\* The response of the last call, when the transport succeeded and the
\* body parsed.
Parsed == reply.err = NoErr /\ reply.body \notin {Garbage, NoFragment}
HasField(json, field) == json.k = "object" /\ field \in DOMAIN json.v

\* C7: after a successful transport call, BatchWriteItem fails with
\* MalformedResponse when "UnprocessedItems" is absent or no mapping, and
\* returns an empty result without error when it is the empty mapping.
C7_UnprocessedItemsField ==
    (op = "BatchWriteItem" /\ Len(calls) = 1 /\ Parsed) =>
        /\ (~HasField(reply.body, "UnprocessedItems")
              \/ reply.body.v["UnprocessedItems"].k # "object") =>
              err.kind = "Unexpected response" /\ ret = Nil
        /\ (HasField(reply.body, "UnprocessedItems")
              /\ reply.body.v["UnprocessedItems"] = JObject(EmptyMap)) =>
              err = NoErr /\ ret = MapVal(EmptyMap)

C7_Witness ==
    /\ op = "BatchWriteItem"
    /\ reply = Body(JObject("UnprocessedItems" :> JString("x")))
    /\ err.kind = "Unexpected response"
    /\ ret = Nil

\* The attribute a well-formed wire attribute {typeTag: value} stands for.
TagOf(wire) == CHOOSE tag \in DOMAIN wire.v : TRUE
WellFormedWire(wire) ==
    /\ wire.k = "object"
    /\ Cardinality(DOMAIN wire.v) = 1
    /\ IF TagOf(wire) \in {"S", "N", "B"} THEN wire.v[TagOf(wire)].k = "string"
       ELSE /\ TagOf(wire) \in {"SS", "NS", "BS"}
            /\ wire.v[TagOf(wire)].k = "array"
            /\ \A i \in DOMAIN wire.v[TagOf(wire)].v :
                  wire.v[TagOf(wire)].v[i].k = "string"
Denoted(name, wire) ==
    IF TagOf(wire) \in {"S", "N", "B"}
    THEN [Type |-> TagOf(wire), Name |-> name,
          Value |-> wire.v[TagOf(wire)].v, SetValues |-> <<>>]
    ELSE [Type |-> TagOf(wire), Name |-> name, Value |-> "",
          SetValues |-> [i \in DOMAIN wire.v[TagOf(wire)].v |->
                            wire.v[TagOf(wire)].v[i].v]]

\* A container of the form {opKind: {"Item": {attrName: wireAttr, ...}}}.
ItemContainer(c) ==
    /\ c.k = "object"
    /\ Cardinality(DOMAIN c.v) = 1
    /\ \A kind \in DOMAIN c.v :
          /\ c.v[kind].k = "object"
          /\ DOMAIN c.v[kind].v = {"Item"}
          /\ c.v[kind].v["Item"].k = "object"
          /\ \A name \in DOMAIN c.v[kind].v["Item"].v :
                WellFormedWire(c.v[kind].v["Item"].v[name])
KindOf(c) == CHOOSE kind \in DOMAIN c.v : TRUE
WireItemOf(c) == c.v[KindOf(c)].v["Item"].v

\* An Item that carries exactly the attributes of a wire item.
Carries(item, wireItem) ==
    /\ Len(item.attributes) = Cardinality(DOMAIN wireItem)
    /\ {item.attributes[k] : k \in DOMAIN item.attributes}
          = {Denoted(name, wireItem[name]) : name \in DOMAIN wireItem}

\* A response all of whose tables hold sequences of such containers.
ItemContainersOnly(body) ==
    /\ HasField(body, "UnprocessedItems")
    /\ body.v["UnprocessedItems"].k = "object"
    /\ \A t \in DOMAIN body.v["UnprocessedItems"].v :
          /\ body.v["UnprocessedItems"].v[t].k = "array"
          /\ \A i \in DOMAIN body.v["UnprocessedItems"].v[t].v :
                ItemContainer(body.v["UnprocessedItems"].v[t].v[i])

\* C8: for a response whose UnprocessedItems maps tables to sequences of
\* containers {opKind: {"Item": attributes}}, BatchWriteItem returns no
\* error and, for every container of table T, an Item under T and opKind
\* that carries exactly the decoded attributes of the container; the
\* response {"T": [{"PutRequest": {"Item": {"id": {"N": "1"}}}}]} gives one
\* Item with the Number attribute id = "1".
C8_UnprocessedItemsDecoded ==
    (op = "BatchWriteItem" /\ Len(calls) = 1 /\ Parsed
        /\ ItemContainersOnly(reply.body)) =>
        LET tables == reply.body.v["UnprocessedItems"].v IN
        /\ err = NoErr
        /\ ret.k = "map"
        /\ DOMAIN ret.v = DOMAIN tables
        /\ \A t \in DOMAIN tables : \A i \in DOMAIN tables[t].v :
              LET c == tables[t].v[i] IN
              /\ KindOf(c) \in DOMAIN ret.v[t]
              /\ \E n \in DOMAIN ret.v[t][KindOf(c)] :
                    Carries(ret.v[t][KindOf(c)][n], WireItemOf(c))
        /\ tables = ("T" :> JArray(<<JObject("PutRequest" :>
                        JObject("Item" :> JObject("id" :>
                            JObject("N" :> JString("1")))))>>)) =>
              ret = MapVal("T" :> ("PutRequest" :>
                        <<[attributes |->
                            <<[Type |-> "N", Name |-> "id", Value |-> "1",
                               SetValues |-> <<>>]>>]>>))

\* Two put containers of one table came back as two Items, in one list.
C8_Witness ==
    /\ op = "BatchWriteItem"
    /\ err = NoErr
    /\ reply = Body(JObject("UnprocessedItems" :> JObject("T" :>
                  JArray(<<JObject("PutRequest" :> JObject("Item" :> IdOne)),
                           JObject("PutRequest" :> JObject("Item" :> IdAndName))>>))))
    /\ Len(ret.v["T"]["PutRequest"]) = 2
    /\ Carries(ret.v["T"]["PutRequest"][1], IdOne.v)

\* C9: decoding the wire object produced by encoding an attribute gives an
\* attribute of the same Type and Name with the same Value (scalar types)
\* or the same SetValues in the same order (set types).
C9_RoundTrip ==
    (op = "GetItem" /\ reply = Stored(heap["a"])) =>
        /\ err = NoErr
        /\ ret.k = "map"
        /\ \A k \in DOMAIN heap["a"].attributes :
              LET a == heap["a"].attributes[k] IN
              /\ a.Name \in DOMAIN ret.v
              /\ ret.v[a.Name].Type = a.Type
              /\ ret.v[a.Name].Name = a.Name
              /\ a.Type \in {"S", "N", "B"} => ret.v[a.Name].Value = a.Value
              /\ a.Type \in {"SS", "NS", "BS"} =>
                    ret.v[a.Name].SetValues = a.SetValues

\* A number set of two elements came back in its order.
C9_Witness ==
    /\ op = "GetItem"
    /\ heap["a"].attributes = <<[Type |-> "NS", Name |-> "id", Value |-> "",
                                 SetValues |-> <<"b", "a">>]>>
    /\ reply = Body(JObject("Item" :> JObject("id" :>
                  JObject("NS" :> JArray(<<JString("b"), JString("a")>>)))))
    /\ err = NoErr
    /\ ret.v["id"].SetValues = <<"b", "a">>

\* C10: GetItem returns NotFound exactly when the parsed response has no
\* "Item" field; "Item": {} gives an empty attribute collection and no
\* error; a transport failure is never reported as NotFound.
C10_NotFound ==
    op = "GetItem" =>
        /\ (err = ErrNotFound) <=> (Parsed /\ ~HasField(reply.body, "Item"))
        /\ err = ErrNotFound => ret = Nil
        /\ reply = Body(JObject("Item" :> JObject(EmptyMap))) =>
              err = NoErr /\ ret = MapVal(EmptyMap)
        /\ reply.err # NoErr => err = reply.err

C10_Witness ==
    /\ op = "GetItem"
    /\ reply = Body(JObject("ConsumedCapacity" :> JObject(EmptyMap)))
    /\ err = ErrNotFound

\* What an acknowledged operation returns: one call, and true exactly when
\* the transport answered with a body that parses.
Acked ==
    /\ Len(calls) = 1
    /\ IF Parsed THEN ret = BoolVal(TRUE) /\ err = NoErr
       ELSE ret = BoolVal(FALSE) /\ err # NoErr

\* C11: PutItem of an item without attributes returns (false,
\* ValidationError); PutItem of any other item, and DeleteItem of any key,
\* return (true, nil) when the transport's response parses, whatever it
\* holds, and (false, error) otherwise: the boolean is true exactly when
\* the error is nil.
C11_PutDeleteItem ==
    [][ /\ \A item \in DOMAIN heap :
             PutItem(item, AckReplies) =>
                IF Len(heap[item].attributes) = 0
                THEN ret' = BoolVal(FALSE) /\ err' = ValidationError
                ELSE Acked'
        /\ \A key \in Keys : DeleteItem(key, AckReplies) => Acked'
        /\ op' \in {"PutItem", "DeleteItem"} =>
              /\ ret' \in {BoolVal(TRUE), BoolVal(FALSE)}
              /\ (ret' = BoolVal(TRUE)) <=> (err' = NoErr)
      ]_vars

\* A put was acknowledged with a body that is no object at all.
C11_Witness ==
    /\ op = "PutItem"
    /\ reply = Body(JString("x"))
    /\ ret = BoolVal(TRUE)
    /\ err = NoErr

\* What a call of modifyAttributes with `action` does before the response:
\* the empty list is refused, any other goes out as one UpdateItem query
\* that carries the key, the attributes and the keyword.
Modifies(action, key, attributes) ==
    IF Len(attributes) = 0
    THEN ret' = BoolVal(FALSE) /\ err' = ValidationError /\ calls' = <<>>
    ELSE /\ Len(calls') = 1
         /\ calls'[1].target = "UpdateItem"
         /\ calls'[1].payload.key = key
         /\ calls'[1].payload.action = action
         /\ Acked'

\* C12: AddAttributes, UpdateAttributes and DeleteAttributes are
\* modifyAttributes with the keywords "ADD", "PUT" and "DELETE", and each
\* returns (false, ValidationError) on the empty attribute list, for every
\* key.
C12_ModifyAttributes ==
    [][ \A key \in Keys, attributes \in AttributeLists :
          /\ AddAttributes(key, attributes, AckReplies) =>
                Modifies("ADD", key, attributes)
          /\ UpdateAttributes(key, attributes, AckReplies) =>
                Modifies("PUT", key, attributes)
          /\ DeleteAttributes(key, attributes, AckReplies) =>
                Modifies("DELETE", key, attributes)
      ]_vars

\* An update went out with the keyword "PUT".
C12_Witness ==
    /\ op = "UpdateAttributes"
    /\ Len(calls) = 1
    /\ calls[1].target = "UpdateItem"
    /\ calls[1].payload.action = "PUT"
    /\ ret = BoolVal(TRUE)

TransportOperations ==
    {"GetItem", "PutItem", "DeleteItem", "AddAttributes", "UpdateAttributes",
     "DeleteAttributes", "BatchWriteItem", "Execute"}
BooleanOperations ==
    {"PutItem", "DeleteItem", "AddAttributes", "UpdateAttributes", "DeleteAttributes"}

\* C13: an invocation of GetItem, PutItem, DeleteItem, modifyAttributes,
\* BatchWriteItem or Execute calls the transport at most once; when the
\* transport fails, the operation returns the transport's error as it is,
\* with a nil or false result, after that one call.
C13_NoRetry ==
    op \in TransportOperations =>
        /\ Len(calls) <= 1
        /\ reply.err # NoErr =>
              /\ Len(calls) = 1
              /\ err = reply.err
              /\ ret = IF op \in BooleanOperations THEN BoolVal(FALSE) ELSE Nil

\* The transport failed a batch get, which returned its error after one
\* call.
C13_Witness ==
    /\ op = "Execute"
    /\ reply = TransportFailure
    /\ Len(calls) = 1
    /\ calls[1].target = "BatchGetItem"
    /\ err = TransportError
    /\ ret = Nil

\* C14: AddTable replaces: a call AddTable(t, keys) leaves exactly `keys`
\* for t and the keys of every other table as they were, and BatchGetItems
\* starts from the keys of its one table; so after any sequence of calls
\* each table holds the keys of the last call that named it.
C14_AddTableReplaces ==
    [][ \A t \in Tables, keys \in KeyLists :
          /\ AddTable(t, keys) =>
                /\ DOMAIN batchGetItem'.Keys = DOMAIN batchGetItem.Keys \cup {t}
                /\ batchGetItem'.Keys[t] = keys
                /\ \A u \in DOMAIN batchGetItem.Keys \ {t} :
                      batchGetItem'.Keys[u] = batchGetItem.Keys[u]
          /\ BatchGetItems(t, keys) =>
                /\ DOMAIN batchGetItem'.Keys = {t}
                /\ batchGetItem'.Keys[t] = keys
      ]_vars

\* After AddTable, one table holds no keys (a call passed the empty list)
\* and the other holds two.
C14_Witness ==
    /\ op = "AddTable"
    /\ DOMAIN batchGetItem.Keys = {"T1", "T2"}
    /\ batchGetItem.Keys["T1"] = <<>>
    /\ Len(batchGetItem.Keys["T2"]) = 2

\* C15: a new Item has no attributes, and each AddAttribute call leaves
\* GetAttributes as it was with the added attribute after it: after any
\* sequence of calls the attributes are the added ones in call order,
\* none dropped, reordered or merged, also when names repeat.
C15_AttributesInCallOrder ==
    [][ /\ GetAttributes(NewItem) = <<>>
        /\ \A item \in DOMAIN heap, attribute \in AttributeChoices :
              CallAddAttribute(item, attribute) =>
                LET before == GetAttributes(heap[item])
                    after == GetAttributes(heap'[item])
                IN /\ Len(after) = Len(before) + 1
                   /\ after[Len(after)] = attribute
                   /\ \A k \in DOMAIN before : after[k] = before[k]
      ]_vars

\* Three calls, the first and the last with attributes of one name.
C15_Witness ==
    /\ op = "AddAttribute"
    /\ GetAttributes(heap["a"]) =
          <<NewStringAttribute("name", "a"), NewNumericAttribute("id", "1"),
            NewStringAttribute("name", "b")>>

\* A batch write whose response parsed and holds a mapping under
\* "UnprocessedItems"; TablesOf is that mapping.
Accepted ==
    /\ op = "BatchWriteItem"
    /\ Len(calls) = 1
    /\ Parsed
    /\ HasField(reply.body, "UnprocessedItems")
    /\ reply.body.v["UnprocessedItems"].k = "object"
TablesOf == reply.body.v["UnprocessedItems"].v

RECURSIVE SumFn(_, _)
SumFn(f, S) ==
    IF S = {} THEN 0
    ELSE LET x == CHOOSE y \in S : TRUE IN f[x] + SumFn(f, S \ {x})

\* The entries (keys) a container lists under an operation kind, and those
\* a sequence of containers lists under it.
EntriesOf(c, kind) ==
    IF c.k = "object" /\ kind \in DOMAIN c.v /\ c.v[kind].k = "object"
    THEN Cardinality(DOMAIN c.v[kind].v) ELSE 0
EntriesUnder(containers, kind) ==
    SumFn([i \in DOMAIN containers |-> EntriesOf(containers[i], kind)],
          DOMAIN containers)
KindsOf(containers) ==
    UNION {DOMAIN containers[i].v : i \in DOMAIN containers}

\* The Items returned for a table: under one kind, and over all kinds.
ReturnedUnder(t, kind) ==
    IF kind \in DOMAIN ret.v[t] THEN Len(ret.v[t][kind]) ELSE 0
ReturnedFor(t) ==
    SumFn([kind \in DOMAIN ret.v[t] |-> Len(ret.v[t][kind])], DOMAIN ret.v[t])

\* A container of one operation kind with one entry under it, as in
\* {opKind: {"Item": attributes}}.
SingleEntry(c) ==
    /\ Cardinality(DOMAIN c.v) = 1
    /\ \A kind \in DOMAIN c.v : Cardinality(DOMAIN c.v[kind].v) = 1

\* C16 as stated: for every table of a response that was decoded, as many
\* Items are returned (over all kinds) as the table lists containers, each
\* under the kind of a container.
C16_OneItemPerContainer ==
    (Accepted /\ err = NoErr) =>
        \A t \in DOMAIN TablesOf :
            /\ ReturnedFor(t) = Len(TablesOf[t].v)
            /\ DOMAIN ret.v[t] \subseteq KindsOf(TablesOf[t].v)

\* C16, amended: for every table of a response that was decoded, the Items
\* returned under an operation kind are as many as the entries the table's
\* containers list under that kind; they are as many as the containers
\* when every container holds one kind with one entry.
C16_OneItemPerEntry ==
    (Accepted /\ err = NoErr) =>
        \A t \in DOMAIN TablesOf :
            /\ \A kind \in KindsOf(TablesOf[t].v) \cup DOMAIN ret.v[t] :
                  ReturnedUnder(t, kind) = EntriesUnder(TablesOf[t].v, kind)
            /\ (\A i \in DOMAIN TablesOf[t].v : SingleEntry(TablesOf[t].v[i])) =>
                  ReturnedFor(t) = Len(TablesOf[t].v)

\* A put and a delete container came back as one Item under each kind.
C16_Witness ==
    /\ Accepted
    /\ err = NoErr
    /\ TablesOf = ("T" :> JArray(<<JObject("PutRequest" :> JObject("Item" :> IdOne)),
                                   JObject("DeleteRequest" :> JObject("Key" :> IdOne))>>))
    /\ Len(ret.v["T"]["PutRequest"]) = 1
    /\ Len(ret.v["T"]["DeleteRequest"]) = 1

\* A container of the documented shape {opKind: {attrName: wireAttr, ...}}
\* and a response that holds only such containers.
DirectContainer(c) ==
    /\ c.k = "object"
    /\ Cardinality(DOMAIN c.v) = 1
    /\ \A kind \in DOMAIN c.v :
          /\ c.v[kind].k = "object"
          /\ \A name \in DOMAIN c.v[kind].v : WellFormedWire(c.v[kind].v[name])
DocumentedShapeOnly(tables) ==
    \A t \in DOMAIN tables :
        /\ tables[t].k = "array"
        /\ \A i \in DOMAIN tables[t].v : DirectContainer(tables[t].v[i])

\* A container {opKind: {key: {attrName: wireAttr, ...}}}: the attributes
\* one level down, under a single key ("Item", "Key").
WrappedContainer(c) ==
    /\ c.k = "object"
    /\ Cardinality(DOMAIN c.v) = 1
    /\ \A kind \in DOMAIN c.v :
          /\ c.v[kind].k = "object"
          /\ Cardinality(DOMAIN c.v[kind].v) = 1
          /\ \A key \in DOMAIN c.v[kind].v :
                /\ c.v[kind].v[key].k = "object"
                /\ \A name \in DOMAIN c.v[kind].v[key].v :
                      WellFormedWire(c.v[kind].v[key].v[name])
WrappedOnly(tables) ==
    \A t \in DOMAIN tables :
        /\ tables[t].k = "array"
        /\ \A i \in DOMAIN tables[t].v : WrappedContainer(tables[t].v[i])
WrappedItemOf(c) ==
    LET inner == c.v[KindOf(c)].v IN inner[CHOOSE key \in DOMAIN inner : TRUE].v

\* C17 as stated: a response of containers of the documented shape
\* {opKind: {attrName: wireAttr, ...}} is decoded without error, each
\* container to an Item under its table and kind that carries the
\* container's attributes.
C17_DocumentedShapeDecoded ==
    (Accepted /\ DocumentedShapeOnly(TablesOf)) =>
        /\ err = NoErr
        /\ \A t \in DOMAIN TablesOf : \A i \in DOMAIN TablesOf[t].v :
              LET c == TablesOf[t].v[i] IN
              /\ KindOf(c) \in DOMAIN ret.v[t]
              /\ \E n \in DOMAIN ret.v[t][KindOf(c)] :
                    Carries(ret.v[t][KindOf(c)][n], c.v[KindOf(c)].v)

\* C17, amended: a container is decoded to one Item under (table, opKind)
\* that carries its attributes when the attributes sit one level down,
\* {opKind: {key: {attrName: wireAttr, ...}}}; a container of the shape
\* {opKind: {attrName: wireAttr, ...}} is accepted too, and gives one Item
\* without attributes for each attribute name.
C17_AttributesOneLevelDown ==
    Accepted =>
        /\ WrappedOnly(TablesOf) =>
              /\ err = NoErr
              /\ \A t \in DOMAIN TablesOf : \A i \in DOMAIN TablesOf[t].v :
                    LET c == TablesOf[t].v[i] IN
                    /\ KindOf(c) \in DOMAIN ret.v[t]
                    /\ \E n \in DOMAIN ret.v[t][KindOf(c)] :
                          Carries(ret.v[t][KindOf(c)][n], WrappedItemOf(c))
        /\ DocumentedShapeOnly(TablesOf) =>
              /\ err = NoErr
              /\ \A t \in DOMAIN TablesOf :
                    \A kind \in KindsOf(TablesOf[t].v) \cup DOMAIN ret.v[t] :
                       /\ ReturnedUnder(t, kind) = EntriesUnder(TablesOf[t].v, kind)
                       /\ kind \in DOMAIN ret.v[t] =>
                             \A n \in DOMAIN ret.v[t][kind] :
                                ret.v[t][kind][n] = NewItem

\* A container that maps "PutRequest" to two attributes came back as two
\* Items without attributes.
C17_Witness ==
    /\ Accepted
    /\ err = NoErr
    /\ TablesOf = ("T" :> JArray(<<JObject("PutRequest" :> IdAndName)>>))
    /\ ret.v["T"]["PutRequest"] = <<NewItem, NewItem>>

\* The fragments of a response at which a shape check of BatchWriteItem
\* fails: the response, a table's value, a container, an operation's
\* value, an entry under an operation.
OffendingIn(c) ==
    IF c.k # "object" THEN {c}
    ELSE UNION {
        IF c.v[kind].k # "object" THEN {c.v[kind]}
        ELSE {c.v[kind].v[e] : e \in {x \in DOMAIN c.v[kind].v :
                                         c.v[kind].v[x].k # "object"}}
        : kind \in DOMAIN c.v }
OffendingFragments(body) ==
    IF ~(HasField(body, "UnprocessedItems")
           /\ body.v["UnprocessedItems"].k = "object")
    THEN {body}
    ELSE LET tables == body.v["UnprocessedItems"].v IN
         UNION {
            IF tables[t].k # "array" THEN {tables[t]}
            ELSE UNION {OffendingIn(tables[t].v[i]) : i \in DOMAIN tables[t].v}
            : t \in DOMAIN tables }

\* C18: a MalformedResponse of BatchWriteItem carries a fragment of the
\* response at which the shape is off: the whole response, a table's
\* value that is no sequence, a container that is no mapping, or a value
\* below it that is no mapping.
C18_FragmentIncluded ==
    (op = "BatchWriteItem" /\ Len(calls) = 1 /\ Parsed
        /\ err.kind = "Unexpected response") =>
        err.raw \in OffendingFragments(reply.body)

\* The Items a container contributes under a kind, decoded; the order of
\* several entries of one container is the map's.
CarriesEntryOf(item, c, kind) ==
    \E e \in DOMAIN c.v[kind].v :
        LET decoded == parseAttributes(c.v[kind].v[e].v) IN
        /\ Len(item.attributes) = Cardinality(DOMAIN decoded)
        /\ {item.attributes[k] : k \in DOMAIN item.attributes}
              = {decoded[name] : name \in DOMAIN decoded}

\* C19: within a table and an operation kind, the Items are returned in
\* the order of their containers: the Items of the i-th container follow
\* those of all containers before it, for any number of containers.
C19_WireOrder ==
    (Accepted /\ err = NoErr) =>
        \A t \in DOMAIN TablesOf :
            LET containers == TablesOf[t].v IN
            \A i \in DOMAIN containers : \A kind \in DOMAIN containers[i].v :
                LET before == EntriesUnder(SubSeq(containers, 1, i - 1), kind)
                    here == EntriesOf(containers[i], kind)
                IN \A n \in (before + 1)..(before + here) :
                      /\ n \in DOMAIN ret.v[t][kind]
                      /\ CarriesEntryOf(ret.v[t][kind][n], containers[i], kind)

\* Three containers, a delete between two puts: the puts came back in
\* their order.
C19_Witness ==
    /\ Accepted
    /\ err = NoErr
    /\ TablesOf = ("T" :> JArray(<<JObject("PutRequest" :> JObject("Item" :> IdAndName)),
                                   JObject("DeleteRequest" :> JObject("Key" :> IdOne)),
                                   JObject("PutRequest" :> JObject("Item" :> IdOne))>>))
    /\ Len(ret.v["T"]["PutRequest"]) = 2
    /\ Carries(ret.v["T"]["PutRequest"][1], IdAndName.v)
    /\ Carries(ret.v["T"]["PutRequest"][2], IdOne.v)

\* A response with a structural deviation below "UnprocessedItems".
Deviates(tables) ==
    \E t \in DOMAIN tables :
        \/ tables[t].k # "array"
        \/ \E i \in DOMAIN tables[t].v :
              LET c == tables[t].v[i] IN
              \/ c.k # "object"
              \/ \E kind \in DOMAIN c.v :
                    \/ c.v[kind].k # "object"
                    \/ \E e \in DOMAIN c.v[kind].v : c.v[kind].v[e].k # "object"

\* C20: BatchWriteItem fails with MalformedResponse, and returns no result,
\* when below "UnprocessedItems" a table's value is no sequence, a
\* container is no mapping, an operation kind's value is no mapping, or an
\* entry under an operation kind is no mapping.
C20_StructuralDeviation ==
    (Accepted /\ Deviates(TablesOf)) =>
        /\ err.kind = "Unexpected response"
        /\ ret = Nil

\* The entry under "Item" is a string.
C20_Witness ==
    /\ Accepted
    /\ TablesOf = ("T" :> JArray(<<JObject("PutRequest" :>
                                      JObject("Item" :> JString("x")))>>))
    /\ err = MalformedResponse(JString("x"))
    /\ ret = Nil

\* A batch get whose response parsed and holds a mapping under "Responses";
\* ResponsesOf is that mapping.
AcceptedGet ==
    /\ op = "Execute"
    /\ Len(calls) = 1
    /\ Parsed
    /\ HasField(reply.body, "Responses")
    /\ reply.body.v["Responses"].k = "object"
ResponsesOf == reply.body.v["Responses"].v

\* A batch get response with a table that is no sequence or an entry that
\* is no mapping.
DeviatesGet(tables) ==
    \E t \in DOMAIN tables :
        \/ tables[t].k # "array"
        \/ \E i \in DOMAIN tables[t].v : tables[t].v[i].k # "object"

\* C21: when BatchWriteItem or Execute meets a malformed table value,
\* container or entry, it returns the error with a nil result: nothing
\* decoded from the rest of the response is returned, and neither
\* operation ever returns an error together with a result.
C21_MalformationAbortsParse ==
    /\ (Accepted /\ Deviates(TablesOf)) => err # NoErr /\ ret = Nil
    /\ (AcceptedGet /\ DeviatesGet(ResponsesOf)) => err # NoErr /\ ret = Nil
    /\ (op \in {"BatchWriteItem", "Execute"} /\ err # NoErr) => ret = Nil

\* One table of the response holds an unprocessed item, the other is no
\* sequence: nothing is returned.
C21_Witness ==
    /\ Accepted
    /\ DOMAIN TablesOf = {"T1", "T2"}
    /\ TablesOf["T1"] = JArray(<<JObject("PutRequest" :> JObject("Item" :> IdOne))>>)
    /\ TablesOf["T2"] = JString("x")
    /\ err.kind = "Unexpected response"
    /\ ret = Nil

SixTags == {"S", "N", "B", "SS", "NS", "BS"}

\* A field whose wire value is no mapping or carries none of the six tags.
TagLess(wire) == wire.k # "object" \/ DOMAIN wire.v \cap SixTags = {}

\* C22: GetItem on a response with a mapping under "Item" returns no
\* error; a field whose wire value is no mapping or carries none of the
\* six tags is left out of the result, and every well-formed field of the
\* same item is decoded as if it stood alone.
C22_BadFieldDropped ==
    (op = "GetItem" /\ Parsed /\ HasField(reply.body, "Item")
        /\ reply.body.v["Item"].k = "object") =>
        LET item == reply.body.v["Item"].v IN
        /\ err = NoErr
        /\ ret.k = "map"
        /\ DOMAIN ret.v \subseteq DOMAIN item
        /\ \A name \in DOMAIN item :
              /\ TagLess(item[name]) => name \notin DOMAIN ret.v
              /\ WellFormedWire(item[name]) =>
                    /\ name \in DOMAIN ret.v
                    /\ ret.v[name] = Denoted(name, item[name])

\* The field "id" carries the unknown tag "X"; "name" came back alone.
C22_Witness ==
    /\ op = "GetItem"
    /\ reply = Body(JObject("Item" :>
                  JObject("id" :> JObject("X" :> JString("1"))
                            @@ "name" :> JObject("S" :> JString("a")))))
    /\ err = NoErr
    /\ ret = MapVal("name" :> [Type |-> "S", Name |-> "name", Value |-> "a",
                                SetValues |-> <<>>])

\* C23: Execute fails with MalformedResponse, and returns nothing, when
\* "Responses" is absent or no mapping, when a table's value is no
\* sequence and when an entry is no mapping; GetItem fails with
\* MalformedResponse, not NotFound and not an empty item, when "Item" is
\* there but is no mapping.
C23_ShapeCheckedAtEachLevel ==
    /\ (op = "Execute" /\ Len(calls) = 1 /\ Parsed) =>
          ((~HasField(reply.body, "Responses")
              \/ reply.body.v["Responses"].k # "object"
              \/ DeviatesGet(reply.body.v["Responses"].v)) =>
                 err = MalformedResponse(reply.body) /\ ret = Nil)
    /\ (op = "GetItem" /\ Parsed /\ HasField(reply.body, "Item")
          /\ reply.body.v["Item"].k # "object") =>
          /\ err = MalformedResponse(reply.body)
          /\ err # ErrNotFound
          /\ ret = Nil

\* The second entry of a table is a string.
C23_Witness ==
    /\ op = "Execute"
    /\ reply = Body(JObject("Responses" :>
                  JObject("T1" :> JArray(<<IdOne, JString("x")>>))))
    /\ err = MalformedResponse(reply.body)
    /\ ret = Nil

\* The sum of len(Value) over the attributes of an Item picked by `pick`.
ValueBytes(item, pick) ==
    SumFn([k \in DOMAIN item.attributes |->
              IF item.attributes[k] \in pick THEN len(item.attributes[k].Value) ELSE 0],
          DOMAIN item.attributes)
AttributesOf(item) == {item.attributes[k] : k \in DOMAIN item.attributes}
ScalarsOf(item) == {a \in AttributesOf(item) : a.Type \in {"S", "N", "B"}}

\* C24 as stated: GetSize is the sum of len(Value) over the attributes of
\* a scalar type only; an attribute of a set type adds nothing, whatever
\* its Value and SetValues hold.
C24_ScalarAttributesOnly ==
    op = "GetSize" => ret = IntVal(ValueBytes(heap["a"], ScalarsOf(heap["a"])))

\* C24, amended: GetSize is the sum of len(Value) over all attributes of
\* the item, whatever their type: an attribute of a set type adds the
\* length of its Value field, which is nothing when that field is empty
\* (then GetSize is the sum over the scalar attributes); SetValues and
\* names add nothing.
C24_ValueOfEveryAttribute ==
    op = "GetSize" =>
        /\ ret = IntVal(ValueBytes(heap["a"], AttributesOf(heap["a"])))
        /\ (\A a \in AttributesOf(heap["a"]) \ ScalarsOf(heap["a"]) : a.Value = "") =>
              ret = IntVal(ValueBytes(heap["a"], ScalarsOf(heap["a"])))

\* A string of one byte and a number set whose Value holds two bytes
\* measure three bytes.
C24_Witness ==
    /\ op = "GetSize"
    /\ heap["a"].attributes =
          <<NewStringAttribute("name", "a"),
            Attribute(TYPE_NUMBER_SET, "sizes", "xy", <<"1">>)>>
    /\ ret = IntVal(3)

\* C25 as stated: the Items a request holds are the request's own: no step
\* of the caller or of BatchWriteItem changes an Item the request holds.
C25_ExclusiveOwnership ==
    [][ \A item \in ItemsOf(request) : heap'[item] = heap[item] ]_vars

\* C25, amended: a request holds the caller's Items by reference.
\* BatchWriteItem only reads the request and the Items, and adding an Item
\* to a request changes no Item; but an attribute appended through the
\* caller's handle to an Item the request holds changes the size the
\* request is validated with, and BatchWriteItem judges the Items as they
\* are when it is called.
C25_SharedHandles ==
    [][ /\ BatchWriteItem(BasicReplies) => heap' = heap /\ request' = request
        /\ \A table \in Tables, item \in DOMAIN heap :
              (AddPutRequest(table, item) \/ AddDeleteRequest(table, item)) =>
                 heap' = heap /\ item \in ItemsOf(request')
        /\ \A item \in DOMAIN heap :
              CallAddAttribute(item, LateAttribute) =>
                 /\ request' = request
                 /\ GetSize(heap'[item]) = GetSize(heap[item]) + 1
                 /\ \A other \in DOMAIN heap \ {item} : heap'[other] = heap[other]
        /\ (op' = "BatchWriteItem" /\ NumItems \in 1..25) =>
              ((err' = ItemTooLarge) <=> SomeItemOver)
      ]_vars

\* The request holds the item of 65536 bytes, to which the caller has
\* appended a byte: the batch is refused.
C25_Witness ==
    /\ op = "BatchWriteItem"
    /\ ItemsOf(request) = {"limit"}
    /\ heap["limit"].attributes =
          <<NewStringAttribute("id", "b65536"), LateAttribute>>
    /\ err = ItemTooLarge

----------------------------------------------------------------------------
\* The threads whose call has returned.
Completed == {th \in Threads : threads[th].pc = "done"}

\* Two calls that append to the same list.
SameList(a, b) ==
    /\ threads[a].call.method = threads[b].call.method
    /\ threads[a].call.table = threads[b].call.table
    /\ IsRequestCall(threads[a].call) \/ threads[a].call.item = threads[b].call.item

\* The entries the builders hold beyond what they held at the start.
EntriesAdded ==
    TotalItems(request)
      + SumFn([id \in DOMAIN heap |->
                  Len(heap[id].attributes) - Len(BatchItems[id].attributes)],
              DOMAIN heap)

\* C26: a builder is not safe for concurrent mutation.  When two threads
\* have completed a call appending to the same list of the same builder,
\* with no lock, and both read the list before either wrote it, the list
\* holds what they read and one entry more: one of the two appends is
\* lost, and the builders hold fewer entries than calls completed.  (No
\* interleaving leaves more entries than calls completed.)
C26_LostAppend ==
    /\ EntriesAdded <= Cardinality(Completed)
    /\ \A a, b \in Threads :
          (/\ a # b
           /\ Completed = {a, b}
           /\ SameList(a, b)
           /\ threads[a].local = threads[b].local)
          => /\ \/ TargetList(threads[a].call) =
                      Append(threads[a].local, Entry(threads[a].call))
                \/ TargetList(threads[a].call) =
                      Append(threads[b].local, Entry(threads[b].call))
             /\ EntriesAdded < Cardinality(Completed)

\* Both threads put an Item under the same table, both calls returned, and
\* the request holds one of the two Items only.
C26_Witness ==
    /\ Completed = Threads
    /\ threads["t1"].call = BuilderCall("AddPutRequest", "T1", "small")
    /\ threads["t2"].call = BuilderCall("AddPutRequest", "T1", "limit")
    /\ threads["t1"].local = <<>> /\ threads["t2"].local = <<>>
    /\ TotalItems(request) = 1
    /\ request.operations["T1"].putRequest = <<"small">>

----------------------------------------------------------------------------
\* The delete list or the put list a request has for a table: empty when
\* the table is not in the operations map.
ListOf(b, table, kind) ==
    IF table \in DOMAIN b.operations THEN b.operations[table][kind] ELSE <<>>

ListKinds == {"deleteRequest", "putRequest"}

\* A call of kind `kind` for `table` with `item` appended to the end of that
\* one list and left every other list and both flags as they were.
AppendedOnly(table, kind, item) ==
    /\ ListOf(request', table, kind) = Append(ListOf(request, table, kind), item)
    /\ \A t \in Tables, other \in ListKinds :
          <<t, other>> # <<table, kind>> =>
             ListOf(request', t, other) = ListOf(request, t, other)
    /\ request'.returnConsumedCapacity = request.returnConsumedCapacity
    /\ request'.returnItemCollecionMetrics = request.returnItemCollecionMetrics

\* GetItems returns n Items, whatever the order of the map.
GetItemsCount(b, n) == \A order \in Orders(b) : Len(GetItems(b, order)) = n

\* C27: on a new request GetItems is empty, and every AddPutRequest and
\* AddDeleteRequest call makes len(GetItems()) one more than it was (an Item
\* that is in the request already counts again), appends the Item to the end
\* of the named table's put or delete list and to no other, leaves both
\* flags unchanged, and leaves every table key of the operations map with
\* at least one item; the other calls leave the lists as they are.
C27_OneEntryPerCall ==
    [][ /\ request = NewBatchWriteItemRequest => GetItemsCount(request, 0)
        /\ \A table \in Tables, item \in DOMAIN heap :
              /\ AddPutRequest(table, item) => AppendedOnly(table, "putRequest", item)
              /\ AddDeleteRequest(table, item) =>
                    AppendedOnly(table, "deleteRequest", item)
              /\ (AddPutRequest(table, item) \/ AddDeleteRequest(table, item)) =>
                    \E n \in 0..MaxCalls :
                       /\ GetItemsCount(request, n)
                       /\ GetItemsCount(request', n + 1)
        /\ (op' \notin {"AddPutRequest", "AddDeleteRequest"}) =>
              \A t \in Tables, kind \in ListKinds :
                 ListOf(request', t, kind) = ListOf(request, t, kind)
        /\ \A t \in DOMAIN request'.operations :
              Len(ListOf(request', t, "deleteRequest"))
                + Len(ListOf(request', t, "putRequest")) >= 1
        /\ op' = "GetItems" => Len(ret'.v) = TotalItems(request)
      ]_vars

\* The same Item was deleted twice under one table and another Item put
\* under the other, a flag is set, and GetItems returned three Items.
C27_Witness ==
    /\ op = "GetItems"
    /\ Len(ret.v) = 3
    /\ ListOf(request, "T2", "deleteRequest") = <<"small", "small">>
    /\ ListOf(request, "T2", "putRequest") = <<>>
    /\ ListOf(request, "T1", "putRequest") = <<"limit">>
    /\ request.returnConsumedCapacity

----------------------------------------------------------------------------
\* The wire object of the field "id" of the item GetItem was answered with.
WireOfId == reply.body.v["Item"].v["id"]

AnsweredWithId ==
    /\ op = "GetItem" /\ Parsed /\ HasField(reply.body, "Item")
    /\ reply.body.v["Item"].k = "object"
    /\ "id" \in DOMAIN reply.body.v["Item"].v
    /\ WireOfId.k = "object"

\* The place of a tag in the order S, N, B, SS, NS, BS.
Priority == <<"S", "N", "B", "SS", "NS", "BS">>
Rank(tag) == CHOOSE i \in 1..6 : Priority[i] = tag

\* A tag that is present with a value of its JSON type.
Usable(wire, tag) ==
    /\ tag \in DOMAIN wire.v
    /\ IF tag \in {"S", "N", "B"} THEN wire.v[tag].k = "string"
       ELSE wire.v[tag].k = "array"

UsableTags(wire) == {tag \in SixTags : Usable(wire, tag)}

\* C28: the type of a decoded field is the first usable tag in the order
\* S, N, B, SS, NS, BS, a tag with a value of the wrong JSON type counting
\* as absent; the field is dropped only when no tag is usable; a field of a
\* scalar type has its Value from the wire and no SetValues, a field of a
\* set type has SetValues from the wire and no Value.
C28_FirstUsableTag ==
    AnsweredWithId =>
        /\ err = NoErr
        /\ ("id" \in DOMAIN ret.v) <=> (UsableTags(WireOfId) # {})
        /\ "id" \in DOMAIN ret.v =>
              LET a == ret.v["id"] IN
              /\ a.Name = "id"
              /\ a.Type \in UsableTags(WireOfId)
              /\ \A tag \in UsableTags(WireOfId) : Rank(a.Type) <= Rank(tag)
              /\ a.Type \in {"S", "N", "B"} =>
                    a.Value = WireOfId.v[a.Type].v /\ a.SetValues = <<>>
              /\ a.Type \in {"SS", "NS", "BS"} =>
                    a.Value = "" /\ Len(a.SetValues) = Len(WireOfId.v[a.Type].v)

\* "S" holds a sequence and "NS" a sequence: the field came back as a
\* number set.
C28_Witness ==
    /\ AnsweredWithId
    /\ WireOfId = JObject("S" :> JArray(<<Str("1")>>)
                            @@ "NS" :> JArray(<<Str("a"), JNull, Str("b")>>))
    /\ ret.v["id"].Type = "NS"
    /\ ret.v["id"].Value = ""

\* C29: a field decoded as a set has as many SetValues as its wire
\* sequence has elements, each at the place of its element: the string
\* where the element is a string, and the empty string where it is not;
\* the decode does not fail.
C29_SetPositionsKept ==
    (AnsweredWithId /\ "id" \in DOMAIN ret.v /\ ret.v["id"].Type \in {"SS", "NS", "BS"}) =>
        LET set == ret.v["id"].SetValues
            wire == WireOfId.v[ret.v["id"].Type].v IN
        /\ err = NoErr
        /\ DOMAIN set = DOMAIN wire
        /\ \A i \in DOMAIN wire :
              set[i] = IF wire[i].k = "string" THEN wire[i].v ELSE ""

\* The null in the middle of a binary set came back as "" between its
\* neighbours.
C29_Witness ==
    /\ AnsweredWithId
    /\ WireOfId = JObject("BS" :> JArray(<<Str("a"), JNull, Str("b")>>))
    /\ err = NoErr
    /\ ret.v["id"].Type = "BS"
    /\ ret.v["id"].SetValues = <<"a", "", "b">>

----------------------------------------------------------------------------
\* C30: DescribeScheduledActions sends StartTime exactly when the start
\* time supplied is not the zero time, formatted as RFC3339, as it does
\* with EndTime: in the request of a call, no StartTime for a zero sTime,
\* sTime's RFC3339 text for any other.
C30_StartTimeWhenSupplied ==
    [][ \A as \in AutoScalingClients,
           asgName \in {"", "g"}, actionNames \in ActionNameLists,
           sTime \in Times, eTime \in Times,
           maxRecords \in {0, 10}, nextToken \in {"", "tok"} :
           (/\ DescribeScheduledActions(as, asgName, actionNames, sTime, eTime,
                                        maxRecords, nextToken, AutoScalingReplies)
            /\ Len(calls') = 1) =>
              LET params == calls'[1].payload IN
              /\ ("EndTime" \in DOMAIN params) <=> (eTime # ZeroTime)
              /\ ("StartTime" \in DOMAIN params) <=> (sTime # ZeroTime)
              /\ sTime # ZeroTime => params["StartTime"] = Format(sTime)
      ]_vars

====
